---- MODULE Spec2Model ----
(***************************************************************************)
(* A model of the per-transfer handlers of tftpff (src/src/server.rs):     *)
(* create_rrq_handler (the Sender of an RRQ) and create_wrq_handler (the   *)
(* Receiver of a WRQ), with the file adapter of src/src/file.rs, the wire  *)
(* codec of src/src/packet.rs and the error notifier of src/src/error.rs.  *)
(*                                                                         *)
(* One behaviour is one invocation of one handler on its own socket.  One  *)
(* action is one pass of the handler from a receive to the next receive:   *)
(* the environment chooses what recv_from returns (a datagram with its     *)
(* source address, a timeout, an I/O error) and the action does everything *)
(* the handler does with it.  Datagrams are byte sequences, built and      *)
(* taken apart as packet.rs does.                                          *)
(***************************************************************************)
EXTENDS Integers, Sequences, FiniteSets, TLC

(***************************************************************************)
(* Bounds of the model.  BLOCK_SIZE stands for the 512 of file.rs:47,87,93 *)
(* and server.rs:225,434: every place the code writes 512 reads BLOCK_SIZE *)
(* here, so that TLC can enumerate every file content around the block     *)
(* boundaries.                                                             *)
(***************************************************************************)
BLOCK_SIZE == 2
MaxFileLen == 4
MaxWireLen == 3
MaxData == 3
MaxNameLen == 4
MaxSessions == 2
MaxInbox == 1
MaxReads == 7
MaxStaged == 2

(***************************************************************************)
(* Program constants.                                                      *)
(***************************************************************************)
MAX_TRIAL_COUNT == 5
U16_MAX == 65535
OPCODE_RRQ == 1
OPCODE_WRQ == 2
OPCODE_DATA == 3
OPCODE_ACK == 4
OPCODE_ERROR == 5
CR == 13
LF == 10
NUL == 0
LetterA == 97
Slash == 47
Dot == 46

Min(a, b) == IF a < b THEN a ELSE b

\* a + 1 on a u16.  When the sum does not fit, a build with overflow checks
\* panics and a build without them wraps to 0.
u16_inc(a, checks) ==
  IF a < U16_MAX THEN [panic |-> FALSE, value |-> a + 1]
  ELSE IF checks THEN [panic |-> TRUE, value |-> a]
  ELSE [panic |-> FALSE, value |-> 0]

\* The builds that differ on a + 1: with overflow checks (TRUE) and without.
OverflowChecks(a) == IF a = U16_MAX THEN BOOLEAN ELSE {TRUE}

\* The block number before and after b, as a peer counts them.
u16_pred(b) == (b + U16_MAX) % (U16_MAX + 1)
u16_succ(b) == (b + 1) % (U16_MAX + 1)

SeqsUpTo(S, n) == UNION {[1..k -> S] : k \in 0..n}

\* Bytes of the local files served by an RRQ, and of the stream a WRQ client sends.
FileBytes == {LetterA, CR, LF}
WireBytes == {LetterA, CR, LF, NUL}
Files == SeqsUpTo(FileBytes, MaxFileLen)
WireFiles == SeqsUpTo(WireBytes, MaxWireLen)

Modes == {"NETASCII", "OCTET"}

\* The session's peer (client_addr) and some other source address.
PeerAddr == "peer"
OtherAddr == "other"

(***************************************************************************)
(* Wire codec (packet.rs)                                                  *)
(***************************************************************************)
\* u16::to_be_bytes and u16::from_be_bytes
to_be_bytes(n) == <<n \div 256, n % 256>>
from_be_bytes(hi, lo) == hi * 256 + lo

ACK_encode(block) == to_be_bytes(OPCODE_ACK) \o to_be_bytes(block)

\* s[..2] and s[2..4] panic on a slice that is too short; a wrong opcode bails.
ACK_parse(s) ==
  IF Len(s) < 2 THEN [tag |-> "Panic", block |-> 0]
  ELSE IF from_be_bytes(s[1], s[2]) # OPCODE_ACK THEN [tag |-> "Err", block |-> 0]
  ELSE IF Len(s) < 4 THEN [tag |-> "Panic", block |-> 0]
  ELSE [tag |-> "Ok", block |-> from_be_bytes(s[3], s[4])]

\* Data::encode as server.rs calls it (no mode argument: the payload as it is).
Data_encode(block, data) == to_be_bytes(OPCODE_DATA) \o to_be_bytes(block) \o data

\* Data::parse as server.rs calls it (no mode argument: the payload as it is).
Data_parse(s) ==
  IF Len(s) < 2 THEN [tag |-> "Panic", block |-> 0, data |-> <<>>]
  ELSE IF from_be_bytes(s[1], s[2]) # OPCODE_DATA
    THEN [tag |-> "Err", block |-> 0, data |-> <<>>]
  ELSE IF Len(s) < 4 THEN [tag |-> "Panic", block |-> 0, data |-> <<>>]
  ELSE [tag |-> "Ok", block |-> from_be_bytes(s[3], s[4]),
        data |-> SubSeq(s, 5, Len(s))]

\* TftpError::error_code
TftpError_code(err) ==
  CASE err = "Others" -> 0
    [] err = "FileNotFound" -> 1
    [] err = "AccessViolation" -> 2
    [] err = "DiskNoSpace" -> 3
    [] err = "IllegalTftpOp" -> 4
    [] err = "UnknownTid" -> 5
    [] err = "FileExists" -> 6
    [] err = "NoSuchUser" -> 7

\* The message texts of error.rs, as bytes.
MsgFileNotFound == <<70, 105, 108, 101, 32, 110, 111, 116, 32, 102, 111, 117, 110, 100>>
MsgPermissionDenied ==
  <<80, 101, 114, 109, 105, 115, 115, 105, 111, 110, 32, 100, 101, 110, 105, 101, 100>>
MsgUnexpectedError ==
  <<85, 110, 101, 120, 112, 101, 99, 116, 101, 100, 32, 101, 114, 114, 111, 114>>

Error_encode(err, msg) ==
  to_be_bytes(OPCODE_ERROR) \o to_be_bytes(TftpError_code(err)) \o msg \o <<NUL>>

\* Error::parse, as far as the code and the message.
Error_parse(s) ==
  IF Len(s) < 2 THEN [tag |-> "Panic", code |-> 0, msg |-> <<>>]
  ELSE IF from_be_bytes(s[1], s[2]) # OPCODE_ERROR
    THEN [tag |-> "Err", code |-> 0, msg |-> <<>>]
  ELSE IF Len(s) < 4 THEN [tag |-> "Panic", code |-> 0, msg |-> <<>>]
  ELSE IF from_be_bytes(s[3], s[4]) > 7 \/ s[Len(s)] # NUL
    THEN [tag |-> "Err", code |-> 0, msg |-> <<>>]
  ELSE [tag |-> "Ok", code |-> from_be_bytes(s[3], s[4]),
        msg |-> SubSeq(s, 5, Len(s) - 1)]

(***************************************************************************)
(* File adapter (file.rs).  A File is a record: inner (the bytes of the    *)
(* wrapped fs::File), pos (its read offset), read_buf, write_buf, mode,    *)
(* is_started, is_finished.                                                *)
(***************************************************************************)
File_new(bytes, mode) ==
  [inner |-> bytes, pos |-> 0, read_buf |-> <<>>, write_buf |-> <<>>,
   mode |-> mode, is_started |-> FALSE, is_finished |-> FALSE]

\* A variant of encode_byte that leaves LF as it is.
encode_byte_bare_lf(x, mode) ==
  IF mode = "OCTET" THEN <<x>>
  ELSE IF x = CR THEN <<CR, NUL>>
  ELSE <<x>>

\* The loop body of read_data_from_inner: what one byte of the file appends.
encode_byte(x, mode) ==
  IF mode = "OCTET" THEN <<x>>
  ELSE IF x = CR THEN <<CR, NUL>>
  ELSE IF x = LF THEN <<CR, LF>>
  ELSE <<x>>

RECURSIVE encode_bytes(_, _)
encode_bytes(s, mode) ==
  IF s = <<>> THEN <<>>
  ELSE encode_byte(Head(s), mode) \o encode_bytes(Tail(s), mode)

\* inner.read(&mut buf) fills up to one buffer from the read offset; the bytes
\* are translated and appended to read_buf.
read_data_from_inner(f) ==
  LET n_buf == Min(BLOCK_SIZE, Len(f.inner) - f.pos)
      buf == SubSeq(f.inner, f.pos + 1, f.pos + n_buf)
  IN [f EXCEPT !.pos = f.pos + n_buf,
               !.read_buf = f.read_buf \o encode_bytes(buf, f.mode)]

File_has_next(f) == ~f.is_started \/ ~f.is_finished

\* A variant of File::read that is finished as soon as the file and read_buf
\* are used up, so that a full last block is not followed by an empty one.
File_read_no_empty_block(f) ==
  IF f.is_finished THEN [file |-> f, out |-> <<>>]
  ELSE LET f1 == read_data_from_inner([f EXCEPT !.is_started = TRUE])
           n == Min(BLOCK_SIZE, Len(f1.read_buf))
       IN [file |-> [f1 EXCEPT !.read_buf = SubSeq(f1.read_buf, n + 1, Len(f1.read_buf)),
                               !.is_finished = (n < BLOCK_SIZE
                                                \/ (f1.pos = Len(f1.inner)
                                                    /\ n = Len(f1.read_buf)))],
           out |-> SubSeq(f1.read_buf, 1, n)]

\* A variant of File::read that is finished only by a block with no byte.
File_read_until_empty(f) ==
  IF f.is_finished THEN [file |-> f, out |-> <<>>]
  ELSE LET f1 == read_data_from_inner([f EXCEPT !.is_started = TRUE])
           n == Min(BLOCK_SIZE, Len(f1.read_buf))
       IN [file |-> [f1 EXCEPT !.read_buf = SubSeq(f1.read_buf, n + 1, Len(f1.read_buf)),
                               !.is_finished = (n = 0)],
           out |-> SubSeq(f1.read_buf, 1, n)]

\* File::read: the file after the call and the bytes handed out.
File_read(f) ==
  IF f.is_finished THEN [file |-> f, out |-> <<>>]
  ELSE LET f1 == read_data_from_inner([f EXCEPT !.is_started = TRUE])
           n == Min(BLOCK_SIZE, Len(f1.read_buf))
       IN [file |-> [f1 EXCEPT !.read_buf = SubSeq(f1.read_buf, n + 1, Len(f1.read_buf)),
                               !.is_finished = (n < BLOCK_SIZE)],
           out |-> SubSeq(f1.read_buf, 1, n)]

\* The decoding loop of File::write over in_buf from index i: the bytes decoded
\* so far, the carry left in write_buf, and whether the loop panicked.
RECURSIVE write_loop(_, _, _)
write_loop(in_buf, i, out_buf) ==
  IF i > Len(in_buf) THEN [out_buf |-> out_buf, write_buf |-> <<>>, panic |-> FALSE]
  ELSE IF in_buf[i] = CR
    THEN IF i + 1 <= Len(in_buf)
           THEN IF in_buf[i + 1] = NUL
                  THEN write_loop(in_buf, i + 2, Append(out_buf, CR))
                ELSE IF in_buf[i + 1] = LF
                  THEN write_loop(in_buf, i + 2, Append(out_buf, LF))
                ELSE [out_buf |-> out_buf, write_buf |-> <<>>, panic |-> TRUE]
         ELSE [out_buf |-> out_buf, write_buf |-> <<CR>>, panic |-> FALSE]
  ELSE write_loop(in_buf, i + 1, Append(out_buf, in_buf[i]))

\* A variant of File::write that keeps no CR from one call to the next.
File_write_no_carry(f, data) ==
  LET f1 == [f EXCEPT !.is_started = TRUE]
  IN IF f.mode = "OCTET"
       THEN [file |-> [f1 EXCEPT !.inner = f.inner \o data], n |-> Len(data),
             panic |-> FALSE]
     ELSE LET r == write_loop(data, 1, <<>>)
          IN IF r.panic
               THEN [file |-> [f1 EXCEPT !.write_buf = <<>>], n |-> 0, panic |-> TRUE]
             ELSE [file |-> [f1 EXCEPT !.write_buf = <<>>,
                                       !.inner = f.inner \o r.out_buf],
                   n |-> Len(r.out_buf), panic |-> FALSE]

\* File::write: the file after the call, the count returned, whether it panicked.
File_write(f, data) ==
  LET f1 == [f EXCEPT !.is_started = TRUE]
  IN IF f.mode = "OCTET"
       THEN [file |-> [f1 EXCEPT !.inner = f.inner \o data], n |-> Len(data),
             panic |-> FALSE]
     ELSE LET r == write_loop(f.write_buf \o data, 1, <<>>)
          IN IF r.panic
               THEN [file |-> [f1 EXCEPT !.write_buf = <<>>], n |-> 0, panic |-> TRUE]
             ELSE [file |-> [f1 EXCEPT !.write_buf = r.write_buf,
                                       !.inner = f.inner \o r.out_buf],
                   n |-> Len(r.out_buf), panic |-> FALSE]

\* std::io::Write::write_all over File::write (called at server.rs:427): write
\* is called on what is left of the buffer until nothing is left; a call that
\* returns 0 ends it with ErrorKind::WriteZero.
RECURSIVE write_all(_, _)
write_all(f, buf) ==
  IF buf = <<>> THEN [file |-> f, res |-> "Ok"]
  ELSE LET r == File_write(f, buf)
       IN IF r.panic THEN [file |-> r.file, res |-> "Panic"]
          ELSE IF r.n = 0 THEN [file |-> r.file, res |-> "WriteZero"]
          ELSE write_all(r.file, SubSeq(buf, r.n + 1, Len(buf)))

(***************************************************************************)
(* Error notifier (error.rs)                                               *)
(***************************************************************************)
\* A variant of notify_error with the codes of its first two arms exchanged.
notify_error_swapped(kind) ==
  IF kind = "NotFound" THEN Error_encode("AccessViolation", MsgFileNotFound)
  ELSE IF kind = "PermissionDenied"
    THEN Error_encode("FileNotFound", MsgPermissionDenied)
  ELSE Error_encode("Others", MsgUnexpectedError)

\* notify_error: the Error packet sent for an io::Error of the given kind.
notify_error(kind) ==
  IF kind = "NotFound" THEN Error_encode("FileNotFound", MsgFileNotFound)
  ELSE IF kind = "PermissionDenied"
    THEN Error_encode("AccessViolation", MsgPermissionDenied)
  ELSE Error_encode("Others", MsgUnexpectedError)

(***************************************************************************)
(* RrqHandlingState (server.rs)                                            *)
(***************************************************************************)
Rrq_new == [block |-> 0, trial_count |-> 0, data |-> <<>>]

\* A variant of increment_trial_count that allows one trial more.
Rrq_increment_trial_count_one_more(st) ==
  IF st.trial_count > MAX_TRIAL_COUNT THEN [some |-> FALSE, state |-> st]
  ELSE [some |-> TRUE, state |-> [st EXCEPT !.trial_count = st.trial_count + 1]]

Rrq_increment_trial_count(st) ==
  IF st.trial_count >= MAX_TRIAL_COUNT THEN [some |-> FALSE, state |-> st]
  ELSE [some |-> TRUE, state |-> [st EXCEPT !.trial_count = st.trial_count + 1]]

\* prepare_packet: None, or the state with its counter raised and the DATA.
Rrq_prepare_packet(st) ==
  LET r == Rrq_increment_trial_count(st)
  IN [some |-> r.some, state |-> r.state,
      pkt |-> Data_encode(r.state.block, r.state.data)]

\* next: self.block += 1, and whether that addition panicked.
Rrq_next(st, data, checks) ==
  LET b == u16_inc(st.block, checks)
  IN [panic |-> b.panic,
      state |-> IF b.panic THEN st
                ELSE [block |-> b.value, trial_count |-> 0, data |-> data]]

(***************************************************************************)
(* WrqHandlingState (server.rs)                                            *)
(***************************************************************************)
Wrq_new == [tag |-> "RequestAccepted", block |-> 0, trial_count |-> 0]

Wrq_block(st) == IF st.tag = "RequestAccepted" THEN 0 ELSE st.block

\* A variant of increment_trial_count that allows one trial more.
Wrq_increment_trial_count_one_more(st) ==
  IF st.trial_count > MAX_TRIAL_COUNT THEN [some |-> FALSE, state |-> st]
  ELSE [some |-> TRUE, state |-> [st EXCEPT !.trial_count = st.trial_count + 1]]

Wrq_increment_trial_count(st) ==
  IF st.trial_count >= MAX_TRIAL_COUNT THEN [some |-> FALSE, state |-> st]
  ELSE [some |-> TRUE, state |-> [st EXCEPT !.trial_count = st.trial_count + 1]]

Wrq_prepare_packet(st) ==
  LET r == Wrq_increment_trial_count(st)
  IN [some |-> r.some, state |-> r.state, pkt |-> ACK_encode(Wrq_block(r.state))]

\* A variant of next that carries the trial counter over to the next block.
Wrq_next_keeps_trials(st, checks) ==
  IF st.tag = "RequestAccepted"
    THEN [panic |-> FALSE,
          state |-> [tag |-> "DataAccepted", block |-> 1, trial_count |-> st.trial_count]]
  ELSE LET b == u16_inc(st.block, checks)
       IN [panic |-> b.panic,
           state |-> IF b.panic THEN st
                     ELSE [tag |-> "DataAccepted", block |-> b.value,
                           trial_count |-> st.trial_count]]

\* next: block + 1, and whether that addition panicked.
Wrq_next(st, checks) ==
  IF st.tag = "RequestAccepted"
    THEN [panic |-> FALSE,
          state |-> [tag |-> "DataAccepted", block |-> 1, trial_count |-> 0]]
  ELSE LET b == u16_inc(st.block, checks)
       IN [panic |-> b.panic,
           state |-> IF b.panic THEN st
                     ELSE [tag |-> "DataAccepted", block |-> b.value, trial_count |-> 0]]

(***************************************************************************)
(* State                                                                   *)
(***************************************************************************)
VARIABLES
  req,          \* the request handed to the handler: [kind, mode]
  fs_result,    \* how the handler's operation on the base directory ended, or "None"
  base_file,    \* base_dir/<filename>: [exists, bytes]
  temp_exists,  \* whether the staging file temp_dir/<filename>.<random> exists
  client_data,  \* the byte stream the WRQ client is uploading
  pc,           \* "start", "loop" (in recv_from), "done", "failed", "panicked";
                \* where the publication is followed step by step also "publish"
                \* (the loop was left) and "copying" (in fs::copy)
  fail,         \* why the handler returned Err
  rrq_state,    \* RrqHandlingState
  wrq_state,    \* WrqHandlingState
  file,         \* the File adapter the handler holds
  rcvd,         \* the payloads of the DATA the Receiver took from its peer, end to end
  sent,         \* the datagrams the handler sent: pkts, in order, each [dst, bytes],
                \* a datagram sent several times in a row listed once; repeat, how
                \* many times the last of them has been sent
  ev            \* what the last receive returned: [kind, src, bytes]

\* The listener (TftpServer::run) and the sockets bound to the server's address.
VARIABLES
  lpc,          \* the listener: "off", "recv" (in recv_from), "connect" (child socket
                \* bound, not yet connected), "stopped" (run returned Ok), "failed"
                \* (run returned Err), "panicked"
  socks,        \* the sockets, socks[1] the listener's: [port, peer, open, inbox, sent_on]
  pending,      \* the request being dispatched: [kind, filename, mode, client, sock]
  sessions,     \* the handlers spawned, in order: [kind, peer, filename, mode, sock, live]
  term          \* the flag the termination signals set

\* The parsing of one request datagram, on its own.
VARIABLES
  parse_in,     \* the datagram handed to InitialPacket::parse
  parse_out     \* its result, or NotParsed

\* A File adapter used on its own, by a caller that only reads or only writes.
VARIABLES
  ad_op,        \* "off", "read", "write", "panicked"
  ad_src,       \* read: the bytes of the file opened; write: the bytes x to store
  ad_chunks,    \* write: the buffers the caller hands to write, in order
  ad_file,      \* the File
  ad_outs       \* what the calls made so far returned, in order: for a read
                \* [has_next, out] (has_next() just before, the bytes handed out),
                \* for a write [n] (the count returned)

\* Two Receivers of the same file name that publish side by side.
VARIABLES
  racers,       \* the two handlers: [staged, pc, off], staged the bytes of the
                \* handler's own staging file, pc "publish" (the loop was left),
                \* "copying" (in fs::copy), "done", "failed", off how many bytes
                \* fs::copy has written
  dest          \* base_dir/<filename>: [exists, bytes]

session_vars == <<req, fs_result, base_file, temp_exists, client_data, pc, fail,
                  rrq_state, wrq_state, file, rcvd, sent, ev>>
listener_vars == <<lpc, socks, pending, sessions, term>>
parse_vars == <<parse_in, parse_out>>
adapter_vars == <<ad_op, ad_src, ad_chunks, ad_file, ad_outs>>
race_vars == <<racers, dest>>

vars == <<req, fs_result, base_file, temp_exists, client_data, pc, fail, rrq_state,
          wrq_state, file, rcvd, sent, ev, lpc, socks, pending, sessions, term,
          parse_in, parse_out, ad_op, ad_src, ad_chunks, ad_file, ad_outs,
          racers, dest>>

NoRequest == [kind |-> "none", filename |-> <<>>, mode |-> "none", client |-> "none",
              sock |-> 0]
NotParsed == [tag |-> "none", kind |-> "none", filename |-> <<>>, mode |-> "none"]

\* No listener is running.
ListenerIdle ==
  /\ lpc = "off" /\ socks = <<>> /\ pending = NoRequest /\ sessions = <<>>
  /\ term = FALSE

\* No datagram is being parsed on its own.
ParseIdle == parse_in = <<>> /\ parse_out = NotParsed

\* No File adapter is used on its own.
AdapterIdle ==
  /\ ad_op = "off" /\ ad_src = <<>> /\ ad_chunks = <<>> /\ ad_outs = <<>>
  /\ ad_file = File_new(<<>>, "OCTET")

NoFile == [exists |-> FALSE, bytes |-> <<>>]

\* No two handlers are followed side by side.
RaceIdle == racers = <<>> /\ dest = NoFile
NoEvent == [kind |-> "none", src |-> "none", bytes |-> <<>>]
IoErrors == {"NotFound", "PermissionDenied", "Other"}

InitRrq ==
  /\ req \in [kind : {"RRQ"}, mode : Modes]
  /\ base_file \in {NoFile} \cup [exists : {TRUE}, bytes : Files]
  /\ client_data = <<>>

InitWrq ==
  /\ req \in [kind : {"WRQ"}, mode : Modes]
  /\ base_file = NoFile
  /\ client_data \in WireFiles

Init ==
  /\ InitRrq \/ InitWrq
  /\ fs_result = "None"
  /\ temp_exists = FALSE
  /\ pc = "start"
  /\ fail = "none"
  /\ rrq_state = Rrq_new
  /\ wrq_state = Wrq_new
  /\ file = File_new(<<>>, req.mode)
  /\ rcvd = <<>>
  /\ sent = [pkts |-> <<>>, repeat |-> 0]
  /\ ev = NoEvent
  /\ ListenerIdle
  /\ ParseIdle
  /\ AdapterIdle
  /\ RaceIdle

\* sock.send_to(bytes, addr)
send_to(log, bytes, addr) ==
  LET d == [dst |-> addr, bytes |-> bytes]
  IN IF log.pkts # <<>> /\ log.pkts[Len(log.pkts)] = d
       THEN [log EXCEPT !.repeat = log.repeat + 1]
     ELSE [pkts |-> Append(log.pkts, d), repeat |-> 1]

\* How fs::File::open of base_dir/<filename> may end.
fs_open_results == IF base_file.exists THEN {"Ok", "PermissionDenied", "Other"}
                   ELSE IoErrors

\* How fs::copy into base_dir/<filename> may end.
fs_copy_results == {"Ok"} \cup IoErrors

\* How fs::remove_file of the staging file may end.
fs_remove_results == {"Ok", "Other"}

(***************************************************************************)
(* create_rrq_handler                                                      *)
(***************************************************************************)
\* Up to the first recv_from: open, first read, first DATA.
RrqStart ==
  /\ pc = "start" /\ req.kind = "RRQ"
  /\ ev' = [kind |-> "start", src |-> "none", bytes |-> <<>>]
  /\ \E res \in fs_open_results :
       /\ fs_result' = res
       /\ IF res # "Ok"
            THEN /\ sent' = send_to(sent, notify_error(res), PeerAddr)
                 /\ pc' = "failed" /\ fail' = "open"
                 /\ UNCHANGED <<rrq_state, file>>
          ELSE LET r == File_read(File_new(base_file.bytes, req.mode))
                   p == Rrq_prepare_packet(Rrq_next(Rrq_new, r.out, TRUE).state)
               IN /\ file' = r.file
                  /\ rrq_state' = p.state
                  /\ sent' = send_to(sent, p.pkt, PeerAddr)
                  /\ pc' = "loop" /\ UNCHANGED fail
  /\ UNCHANGED <<req, base_file, temp_exists, client_data, wrq_state>>
  /\ UNCHANGED <<rcvd, listener_vars, parse_vars, adapter_vars, race_vars>>

\* A variant of the timeout arm that tells the peer when it gives up.
RrqOnTimeout_notifies(st, log) ==
  LET p == Rrq_prepare_packet(st)
  IN IF p.some
       THEN [pc |-> "loop", fail |-> "none", state |-> p.state,
             sent |-> send_to(log, p.pkt, PeerAddr)]
     ELSE [pc |-> "failed", fail |-> "timeout", state |-> st,
           sent |-> send_to(log, Error_encode("Others", MsgUnexpectedError), PeerAddr)]

\* recv_from returned WouldBlock: retransmit, or give up.
RrqOnTimeout(st, log) ==
  LET p == Rrq_prepare_packet(st)
  IN IF p.some
       THEN [pc |-> "loop", fail |-> "none", state |-> p.state,
             sent |-> send_to(log, p.pkt, PeerAddr)]
     ELSE [pc |-> "failed", fail |-> "timeout", state |-> st, sent |-> log]

RrqTimeout ==
  /\ pc = "loop" /\ req.kind = "RRQ"
  /\ LET r == RrqOnTimeout(rrq_state, sent)
     IN /\ pc' = r.pc /\ fail' = r.fail /\ rrq_state' = r.state /\ sent' = r.sent
  /\ ev' = [kind |-> "timeout", src |-> "none", bytes |-> <<>>]
  /\ UNCHANGED <<req, fs_result, base_file, temp_exists, client_data, wrq_state, file>>
  /\ UNCHANGED <<rcvd, listener_vars, parse_vars, adapter_vars, race_vars>>

\* recv_from returned another error.
RrqRecvError ==
  /\ pc = "loop" /\ req.kind = "RRQ"
  /\ pc' = "failed" /\ fail' = "recv"
  /\ ev' = [kind |-> "recv_err", src |-> "none", bytes |-> <<>>]
  /\ UNCHANGED <<req, fs_result, base_file, temp_exists, client_data, rrq_state,
                 wrq_state, file, sent>>
  /\ UNCHANGED <<rcvd, listener_vars, parse_vars, adapter_vars, race_vars>>

\* A variant without the check of the source address.
Rrq_is_foreign_never(src) == FALSE

\* ack_addr != client_addr
Rrq_is_foreign(src) == src # PeerAddr

\* A variant that takes any ACK for the ACK of the block held.
Rrq_ack_matches_any(pkt, st) == TRUE

\* Ok(pkt) if pkt.block() == state.block()
Rrq_ack_matches(pkt, st) == pkt.block = st.block

\* A variant of the arm of the matching ACK that ends the transfer as soon as
\* it has sent the final block, without waiting for its ACK.
RrqOnAck_no_final_ack(st, f, log, checks) ==
  IF File_has_next(f)
    THEN LET r == File_read(f)
             n == Rrq_next(st, r.out, checks)
             p == Rrq_prepare_packet(n.state)
         IN IF n.panic
              THEN [pc |-> "panicked", state |-> st, file |-> r.file, sent |-> log]
            ELSE IF p.some
              THEN [pc |-> IF File_has_next(r.file) THEN "loop" ELSE "done",
                    state |-> p.state, file |-> r.file,
                    sent |-> send_to(log, p.pkt, PeerAddr)]
            ELSE [pc |-> "loop", state |-> p.state, file |-> r.file, sent |-> log]
  ELSE [pc |-> "done", state |-> st, file |-> f, sent |-> log]

\* The arm of the matching ACK: the next block, or the end of the loop.
RrqOnAck(st, f, log, checks) ==
  IF File_has_next(f)
    THEN LET r == File_read(f)
             n == Rrq_next(st, r.out, checks)
             p == Rrq_prepare_packet(n.state)
         IN IF n.panic
              THEN [pc |-> "panicked", state |-> st, file |-> r.file, sent |-> log]
            ELSE IF p.some
              THEN [pc |-> "loop", state |-> p.state, file |-> r.file,
                    sent |-> send_to(log, p.pkt, PeerAddr)]
            ELSE [pc |-> "loop", state |-> p.state, file |-> r.file, sent |-> log]
  ELSE [pc |-> "done", state |-> st, file |-> f, sent |-> log]

\* A variant of the arm of an ACK with another block that sends the DATA again.
RrqOnWrongAck_resends(st, f, log) ==
  [pc |-> "loop", state |-> st, file |-> f,
   sent |-> send_to(log, Data_encode(st.block, st.data), PeerAddr)]

\* The arm of an ACK with another block: a warning.
RrqOnWrongAck(st, f, log) == [pc |-> "loop", state |-> st, file |-> f, sent |-> log]

\* The arm of a datagram from another address: a warning.
RrqOnForeign(st, f, log, src) == [pc |-> "loop", state |-> st, file |-> f, sent |-> log]

\* One datagram received in the loop.
RrqOnDatagram(st, f, log, src, bytes, checks) ==
  IF Rrq_is_foreign(src) THEN RrqOnForeign(st, f, log, src)
  ELSE LET a == ACK_parse(bytes)
       IN IF a.tag = "Panic"
            THEN [pc |-> "panicked", state |-> st, file |-> f, sent |-> log]
          ELSE IF a.tag = "Ok" /\ Rrq_ack_matches(a, st)
            THEN RrqOnAck(st, f, log, checks)
          ELSE IF a.tag = "Ok" THEN RrqOnWrongAck(st, f, log)
          ELSE [pc |-> "loop", state |-> st, file |-> f, sent |-> log]

\* What the environment may deliver to a Sender.
RrqPeerDatagrams ==
  {ACK_encode(b) : b \in {u16_pred(rrq_state.block), rrq_state.block,
                          u16_succ(rrq_state.block)}}
    \cup {Data_encode(1, <<>>), <<>>, to_be_bytes(OPCODE_ACK)}
RrqForeignDatagrams == {ACK_encode(rrq_state.block)}

RrqRecv ==
  /\ pc = "loop" /\ req.kind = "RRQ"
  /\ \E src \in {PeerAddr, OtherAddr} :
       \E bytes \in IF src = PeerAddr THEN RrqPeerDatagrams ELSE RrqForeignDatagrams :
        \E checks \in OverflowChecks(rrq_state.block) :
         /\ LET r == RrqOnDatagram(rrq_state, file, sent, src, bytes, checks)
            IN /\ pc' = r.pc /\ rrq_state' = r.state /\ file' = r.file
               /\ sent' = r.sent
         /\ ev' = [kind |-> "recv", src |-> src, bytes |-> bytes]
  /\ UNCHANGED <<req, fs_result, base_file, temp_exists, client_data, fail,
                 wrq_state>>
  /\ UNCHANGED <<rcvd, listener_vars, parse_vars, adapter_vars, race_vars>>

(***************************************************************************)
(* create_wrq_handler                                                      *)
(***************************************************************************)
\* Up to the first recv_from: ACK(0), then the staging file is created.
WrqStart ==
  /\ pc = "start" /\ req.kind = "WRQ"
  /\ ev' = [kind |-> "start", src |-> "none", bytes |-> <<>>]
  /\ LET p == Wrq_prepare_packet(Wrq_new)
     IN /\ wrq_state' = p.state
        /\ sent' = send_to(sent, p.pkt, PeerAddr)
  /\ \E created \in BOOLEAN :
       IF created
         THEN /\ temp_exists' = TRUE
              /\ file' = File_new(<<>>, req.mode)
              /\ pc' = "loop" /\ UNCHANGED fail
       ELSE /\ pc' = "failed" /\ fail' = "create"
            /\ UNCHANGED <<temp_exists, file>>
  /\ UNCHANGED <<req, fs_result, base_file, client_data, rrq_state>>
  /\ UNCHANGED <<rcvd, listener_vars, parse_vars, adapter_vars, race_vars>>

\* recv_from returned WouldBlock: retransmit, or give up.
\* A variant of the timeout arm that starts counting again instead of giving up.
WrqOnTimeout_starts_over(st, log) ==
  LET p == Wrq_prepare_packet(st)
      q == Wrq_prepare_packet([st EXCEPT !.trial_count = 0])
  IN IF p.some
       THEN [pc |-> "loop", fail |-> "none", state |-> p.state,
             sent |-> send_to(log, p.pkt, PeerAddr)]
     ELSE [pc |-> "loop", fail |-> "none", state |-> q.state,
           sent |-> send_to(log, q.pkt, PeerAddr)]

WrqOnTimeout(st, log) ==
  LET p == Wrq_prepare_packet(st)
  IN IF p.some
       THEN [pc |-> "loop", fail |-> "none", state |-> p.state,
             sent |-> send_to(log, p.pkt, PeerAddr)]
     ELSE [pc |-> "failed", fail |-> "timeout", state |-> st, sent |-> log]

WrqTimeout ==
  /\ pc = "loop" /\ req.kind = "WRQ"
  /\ LET r == WrqOnTimeout(wrq_state, sent)
     IN /\ pc' = r.pc /\ fail' = r.fail /\ wrq_state' = r.state /\ sent' = r.sent
  /\ ev' = [kind |-> "timeout", src |-> "none", bytes |-> <<>>]
  /\ UNCHANGED <<req, fs_result, base_file, temp_exists, client_data, rrq_state, file>>
  /\ UNCHANGED <<rcvd, listener_vars, parse_vars, adapter_vars, race_vars>>

\* recv_from returned another error.
WrqRecvError ==
  /\ pc = "loop" /\ req.kind = "WRQ"
  /\ pc' = "failed" /\ fail' = "recv"
  /\ ev' = [kind |-> "recv_err", src |-> "none", bytes |-> <<>>]
  /\ UNCHANGED <<req, fs_result, base_file, temp_exists, client_data, rrq_state,
                 wrq_state, file, sent>>
  /\ UNCHANGED <<rcvd, listener_vars, parse_vars, adapter_vars, race_vars>>

\* data_addr != client_addr
Wrq_is_foreign(src) == src # PeerAddr

\* A variant of the publication that reports no failure of fs::copy to the peer.
WrqPublish_silent(st, f, log, bf, te, res, rm) ==
  IF res = "Ok" /\ rm = "Ok"
    THEN [pc |-> "done", fail |-> "none", state |-> st, file |-> f, sent |-> log,
          base_file |-> [exists |-> TRUE, bytes |-> f.inner], temp_exists |-> FALSE,
          fs_result |-> res]
  ELSE IF res = "Ok"
    THEN [pc |-> "failed", fail |-> "remove", state |-> st, file |-> f, sent |-> log,
          base_file |-> [exists |-> TRUE, bytes |-> f.inner], temp_exists |-> te,
          fs_result |-> res]
  ELSE [pc |-> "failed", fail |-> "copy", state |-> st, file |-> f, sent |-> log,
        base_file |-> bf, temp_exists |-> te, fs_result |-> res]

\* After the loop: fs::copy of the staging file to base_dir/<filename>, with
\* notify_error, then fs::remove_file of the staging file (its error is
\* returned without notify_error, the copy staying in place).  The copy is one
\* step here, and one that fails does so before it writes; PublishSpec
\* follows it write by write.
WrqPublish(st, f, log, bf, te, res, rm) ==
  IF res = "Ok" /\ rm = "Ok"
    THEN [pc |-> "done", fail |-> "none", state |-> st, file |-> f, sent |-> log,
          base_file |-> [exists |-> TRUE, bytes |-> f.inner], temp_exists |-> FALSE,
          fs_result |-> res]
  ELSE IF res = "Ok"
    THEN [pc |-> "failed", fail |-> "remove", state |-> st, file |-> f, sent |-> log,
          base_file |-> [exists |-> TRUE, bytes |-> f.inner], temp_exists |-> te,
          fs_result |-> res]
  ELSE [pc |-> "failed", fail |-> "copy", state |-> st, file |-> f,
        sent |-> send_to(log, notify_error(res), PeerAddr),
        base_file |-> bf, temp_exists |-> te, fs_result |-> res]

\* The arm of a DATA that parsed: write, next state, ACK, and after a short
\* payload the end of the loop.
WrqOnData(st, f, log, bf, te, pkt, res, rm, checks) ==
  LET w == write_all(f, pkt.data)
  IN IF w.res = "Panic"
       THEN [pc |-> "panicked", fail |-> "none", state |-> st, file |-> w.file,
             sent |-> log, base_file |-> bf, temp_exists |-> te, fs_result |-> "None"]
     ELSE IF w.res # "Ok"
       THEN [pc |-> "failed", fail |-> "write", state |-> st, file |-> w.file,
             sent |-> log, base_file |-> bf, temp_exists |-> te, fs_result |-> "None"]
     ELSE LET n == Wrq_next(st, checks)
              p == Wrq_prepare_packet(n.state)
              log1 == send_to(log, p.pkt, PeerAddr)
          IN IF n.panic
               THEN [pc |-> "panicked", fail |-> "none", state |-> st, file |-> w.file,
                     sent |-> log, base_file |-> bf, temp_exists |-> te,
                     fs_result |-> "None"]
             ELSE IF Len(pkt.data) < BLOCK_SIZE
               THEN WrqPublish(p.state, w.file, log1, bf, te, res, rm)
             ELSE [pc |-> "loop", fail |-> "none", state |-> p.state, file |-> w.file,
                   sent |-> log1, base_file |-> bf, temp_exists |-> te, fs_result |-> "None"]

\* The arm of a datagram from another address: a warning.
WrqOnForeign(st, f, log, bf, te, src) ==
  [pc |-> "loop", fail |-> "none", state |-> st, file |-> f, sent |-> log,
   base_file |-> bf, temp_exists |-> te, fs_result |-> "None"]

\* One datagram received in the loop.
WrqOnDatagram(st, f, log, bf, te, src, bytes, res, rm, checks) ==
  IF Wrq_is_foreign(src) THEN WrqOnForeign(st, f, log, bf, te, src)
  ELSE LET d == Data_parse(bytes)
       IN IF d.tag = "Panic"
            THEN [pc |-> "panicked", fail |-> "none", state |-> st, file |-> f,
                  sent |-> log, base_file |-> bf, temp_exists |-> te, fs_result |-> "None"]
          ELSE IF d.tag = "Ok" THEN WrqOnData(st, f, log, bf, te, d, res, rm, checks)
          ELSE [pc |-> "loop", fail |-> "none", state |-> st, file |-> f,
                sent |-> log, base_file |-> bf, temp_exists |-> te, fs_result |-> "None"]

\* Block k of the stream the client uploads: BLOCK_SIZE bytes, the last one fewer.
\* The client numbers them from the block after the one of the first ACK sent.
ClientBlocks == (Len(client_data) \div BLOCK_SIZE) + 1
ClientBlock(k) ==
  SubSeq(client_data, (k - 1) * BLOCK_SIZE + 1, Min(k * BLOCK_SIZE, Len(client_data)))
ClientBlockNumber(k) == (ACK_parse(sent.pkts[1].bytes).block + k) % (U16_MAX + 1)

\* A DATA of block k that fits the receive buffer of 1024 bytes and carries
\* more than BLOCK_SIZE bytes.
OversizedData(k) == Data_encode(k, [i \in 1..(BLOCK_SIZE + 1) |-> LetterA])

\* What the environment may deliver to a Receiver.
WrqPeerDatagrams ==
  {Data_encode(ClientBlockNumber(k), ClientBlock(k)) : k \in 1..ClientBlocks}
    \cup {ACK_encode(0), <<>>, to_be_bytes(OPCODE_DATA)}
    \cup {OversizedData(u16_succ(Wrq_block(wrq_state)))}
WrqForeignDatagrams == {Data_encode(u16_succ(Wrq_block(wrq_state)), <<>>)}

WrqRecv ==
  /\ pc = "loop" /\ req.kind = "WRQ"
  /\ Len(sent.pkts) <= MaxData
  /\ \E src \in {PeerAddr, OtherAddr} :
       \E bytes \in IF src = PeerAddr THEN WrqPeerDatagrams ELSE WrqForeignDatagrams :
         \E res \in fs_copy_results, rm \in fs_remove_results,
            checks \in OverflowChecks(Wrq_block(wrq_state)) :
           /\ LET r == WrqOnDatagram(wrq_state, file, sent, base_file, temp_exists,
                                     src, bytes, res, rm, checks)
              IN /\ pc' = r.pc /\ wrq_state' = r.state /\ file' = r.file
                 /\ sent' = r.sent /\ base_file' = r.base_file
                 /\ temp_exists' = r.temp_exists /\ fs_result' = r.fs_result
                 /\ fail' = IF r.pc = "failed" THEN r.fail ELSE fail
           /\ rcvd' = IF ~Wrq_is_foreign(src) /\ Data_parse(bytes).tag = "Ok"
                         THEN rcvd \o Data_parse(bytes).data
                       ELSE rcvd
           /\ ev' = [kind |-> "recv", src |-> src, bytes |-> bytes]
  /\ UNCHANGED <<req, client_data, rrq_state, listener_vars, parse_vars, adapter_vars, race_vars>>

Next ==
  \/ RrqStart
  \/ RrqTimeout
  \/ RrqRecv
  \/ RrqRecvError
  \/ WrqStart
  \/ WrqTimeout
  \/ WrqRecv
  \/ WrqRecvError

Spec == Init /\ [][Next]_vars

(***************************************************************************)
(* A transfer of more than U16_MAX blocks, followed from the block before  *)
(* the last block number a u16 holds.  What came before is left out: the   *)
(* log of the datagrams sent starts with the packet held, base_file holds  *)
(* the bytes of the file that are still to be read (RRQ), file.inner the   *)
(* bytes staged from here on (WRQ).                                        *)
(***************************************************************************)
\* A block of BLOCK_SIZE bytes.
FullBlock == [i \in 1..BLOCK_SIZE |-> LetterA]

\* A Sender in its loop that holds the full block b, sent once.
WrapInitRrq(b) ==
  /\ req \in [kind : {"RRQ"}, mode : Modes]
  /\ base_file \in [exists : {TRUE}, bytes : Files]
  /\ file = [File_new(base_file.bytes, req.mode) EXCEPT !.is_started = TRUE]
  /\ rrq_state = [block |-> b, trial_count |-> 1, data |-> FullBlock]
  /\ wrq_state = Wrq_new
  /\ sent = [pkts |-> <<[dst |-> PeerAddr, bytes |-> Data_encode(b, FullBlock)]>>,
             repeat |-> 1]
  /\ ev = [kind |-> "recv", src |-> PeerAddr, bytes |-> ACK_encode(b - 1)]
  /\ client_data = <<>>
  /\ temp_exists = FALSE
  /\ fs_result = "Ok"

\* A Receiver in its loop that took the full block b and sent its ACK once.
WrapInitWrq(b) ==
  /\ req \in [kind : {"WRQ"}, mode : Modes]
  /\ base_file = NoFile
  /\ file = [File_new(<<>>, req.mode) EXCEPT !.is_started = TRUE]
  /\ rrq_state = Rrq_new
  /\ wrq_state = [tag |-> "DataAccepted", block |-> b, trial_count |-> 1]
  /\ sent = [pkts |-> <<[dst |-> PeerAddr, bytes |-> ACK_encode(b)]>>, repeat |-> 1]
  /\ ev = [kind |-> "recv", src |-> PeerAddr, bytes |-> Data_encode(b, FullBlock)]
  /\ client_data \in WireFiles
  /\ temp_exists = TRUE
  /\ fs_result = "None"

WrapInit ==
  /\ \E b \in {U16_MAX - 1, U16_MAX} : WrapInitRrq(b) \/ WrapInitWrq(b)
  /\ pc = "loop"
  /\ fail = "none"
  /\ rcvd = <<>>
  /\ ListenerIdle
  /\ ParseIdle
  /\ AdapterIdle
  /\ RaceIdle

WrapNext ==
  \/ RrqTimeout
  \/ RrqRecv
  \/ RrqRecvError
  \/ WrqTimeout
  \/ WrqRecv
  \/ WrqRecvError

WrapSpec == WrapInit /\ [][WrapNext]_vars

(***************************************************************************)
(* The publication of an upload followed step by step: what create_wrq_    *)
(* handler does once it has left its loop (server.rs 447-455), fs::copy    *)
(* being the creation or truncation of the destination followed by the     *)
(* writes of the bytes of the staging file, each of which may fail.        *)
(***************************************************************************)
\* The staging file after write_all of the blocks k.. of the upload.
RECURSIVE Uploaded(_, _)
Uploaded(f, k) ==
  IF k > ClientBlocks THEN [file |-> f, res |-> "Ok"]
  ELSE LET w == write_all(f, ClientBlock(k))
       IN IF w.res # "Ok" THEN w ELSE Uploaded(w.file, k + 1)

\* The datagrams sent by a Receiver that acknowledged the blocks up to k.
RECURSIVE AckLog(_)
AckLog(k) ==
  IF k = 0 THEN send_to([pkts |-> <<>>, repeat |-> 0], ACK_encode(0), PeerAddr)
  ELSE send_to(AckLog(k - 1), ACK_encode(k), PeerAddr)

\* A file that may be at base_dir/<filename> before the upload is published.
OldFile == [exists |-> TRUE, bytes |-> <<LetterA>>]

\* How a step of fs::copy may fail.
CopyErrors == IoErrors \cup {"StorageFull"}

\* A Receiver that took every block of its upload, each once, and left its loop.
PublishInit ==
  /\ req \in [kind : {"WRQ"}, mode : Modes]
  /\ client_data \in WireFiles
  /\ Uploaded(File_new(<<>>, req.mode), 1).res = "Ok"
  /\ file = Uploaded(File_new(<<>>, req.mode), 1).file
  /\ rcvd = client_data
  /\ base_file \in {NoFile, OldFile}
  /\ temp_exists = TRUE
  /\ fs_result = "None"
  /\ pc = "publish"
  /\ fail = "none"
  /\ rrq_state = Rrq_new
  /\ wrq_state = [tag |-> "DataAccepted", block |-> ClientBlocks, trial_count |-> 1]
  /\ sent = AckLog(ClientBlocks)
  /\ ev = [kind |-> "recv", src |-> PeerAddr,
           bytes |-> Data_encode(ClientBlocks, ClientBlock(ClientBlocks))]
  /\ ListenerIdle
  /\ ParseIdle
  /\ AdapterIdle
  /\ RaceIdle

\* .notify_error(&sock, &client_addr) ... ? on a failure of fs::copy
CopyFailed(kind) ==
  /\ sent' = send_to(sent, notify_error(kind), PeerAddr)
  /\ fs_result' = kind
  /\ pc' = "failed" /\ fail' = "copy"

\* fs::copy opens the staging file and creates the destination, or truncates
\* the file that is there.
CopyOpen ==
  /\ pc = "publish"
  /\ \/ /\ base_file' = [exists |-> TRUE, bytes |-> <<>>]
        /\ pc' = "copying"
        /\ UNCHANGED <<sent, fs_result, fail>>
     \/ /\ \E kind \in CopyErrors : CopyFailed(kind)
        /\ UNCHANGED base_file
  /\ UNCHANGED <<req, client_data, temp_exists, rrq_state, wrq_state, file, rcvd, ev>>
  /\ UNCHANGED <<listener_vars, parse_vars, adapter_vars, race_vars>>

\* fs::copy writes the next bytes of the staging file to the destination.
CopyWrite ==
  /\ pc = "copying"
  /\ Len(base_file.bytes) < Len(file.inner)
  /\ \/ /\ \E n \in (Len(base_file.bytes) + 1)..Len(file.inner) :
             base_file' = [exists |-> TRUE, bytes |-> SubSeq(file.inner, 1, n)]
        /\ UNCHANGED <<sent, fs_result, pc, fail>>
     \/ /\ \E kind \in {"StorageFull", "Other"} : CopyFailed(kind)
        /\ UNCHANGED base_file
  /\ UNCHANGED <<req, client_data, temp_exists, rrq_state, wrq_state, file, rcvd, ev>>
  /\ UNCHANGED <<listener_vars, parse_vars, adapter_vars, race_vars>>

\* fs::copy returned Ok: fs::remove_file of the staging file, then Ok(()).
CopyEnd ==
  /\ pc = "copying"
  /\ Len(base_file.bytes) = Len(file.inner)
  /\ fs_result' = "Ok"
  /\ \E rm \in fs_remove_results :
       IF rm = "Ok"
         THEN temp_exists' = FALSE /\ pc' = "done" /\ UNCHANGED fail
       ELSE pc' = "failed" /\ fail' = "remove" /\ UNCHANGED temp_exists
  /\ UNCHANGED <<req, client_data, base_file, rrq_state, wrq_state, file, rcvd, sent, ev>>
  /\ UNCHANGED <<listener_vars, parse_vars, adapter_vars, race_vars>>

PublishNext == CopyOpen \/ CopyWrite \/ CopyEnd

PublishSpec == PublishInit /\ [][PublishNext]_vars

(***************************************************************************)
(* Requests (packet.rs).  The bytes of the model are ASCII, on which       *)
(* String::from_utf8_lossy changes nothing.                                *)
(***************************************************************************)
NetasciiName == <<110, 101, 116, 97, 115, 99, 105, 105>>
OctetName == <<111, 99, 116, 101, 116>>

\* Mode::encode
Mode_encode(mode) == IF mode = "NETASCII" THEN NetasciiName ELSE OctetName

\* Mode::parse: the name compared in lower case.
Mode_parse(s) ==
  LET l == [i \in DOMAIN s |-> IF s[i] \in 65..90 THEN s[i] + 32 ELSE s[i]]
  IN IF l = NetasciiName THEN "NETASCII"
     ELSE IF l = OctetName THEN "OCTET"
     ELSE "None"

\* slice::split(|x| *x == sep): the pieces between the separators.
RECURSIVE split(_, _)
split(s, sep) ==
  IF \A i \in DOMAIN s : s[i] # sep THEN <<s>>
  ELSE LET k == CHOOSE i \in DOMAIN s : s[i] = sep /\ \A j \in 1..(i - 1) : s[j] # sep
       IN <<SubSeq(s, 1, k - 1)>> \o split(SubSeq(s, k + 1, Len(s)), sep)

\* A variant of file_name that takes the name as it was sent.
file_name_as_sent(raw) ==
  IF raw = <<>> THEN [some |-> FALSE, name |-> <<>>]
  ELSE [some |-> TRUE, name |-> raw]

\* Path::new(raw).file_name(): the last component of the path when it is a
\* normal one.  The components are the pieces between '/', without the empty
\* ones and without the "." that are not the first piece of a relative path.
file_name(raw) ==
  LET segs == split(raw, Slash)
      kept == {i \in DOMAIN segs : segs[i] # <<>> /\ (segs[i] = <<Dot>> => i = 1)}
  IN IF kept = {} THEN [some |-> FALSE, name |-> <<>>]
     ELSE LET l == segs[CHOOSE i \in kept : \A j \in kept : j <= i]
          IN IF l = <<Dot>> \/ l = <<Dot, Dot>> THEN [some |-> FALSE, name |-> <<>>]
             ELSE [some |-> TRUE, name |-> l]

\* ReadPacket::encode, WritePacket::encode
Request_encode(opcode, filename, mode_name) ==
  to_be_bytes(opcode) \o filename \o <<NUL>> \o mode_name \o <<NUL>>

ParseErr == [tag |-> "Err", kind |-> "none", filename |-> <<>>, mode |-> "none"]
ParsePanic == [tag |-> "Panic", kind |-> "none", filename |-> <<>>, mode |-> "none"]

\* ReadPacket::parse
ReadPacket_parse(s) ==
  IF Len(s) < 2 THEN ParsePanic
  ELSE IF from_be_bytes(s[1], s[2]) # OPCODE_RRQ THEN ParseErr
  ELSE LET bs == split(SubSeq(s, 3, Len(s)), NUL)
       IN IF Len(bs) # 3 THEN ParseErr
          ELSE IF ~file_name(bs[1]).some THEN ParseErr
          ELSE IF Mode_parse(bs[2]) = "None" THEN ParseErr
          ELSE [tag |-> "Ok", kind |-> "RRQ", filename |-> file_name(bs[1]).name,
                mode |-> Mode_parse(bs[2])]

\* WritePacket::parse
WritePacket_parse(s) ==
  IF Len(s) < 2 THEN ParsePanic
  ELSE IF from_be_bytes(s[1], s[2]) # OPCODE_WRQ THEN ParseErr
  ELSE LET bs == split(SubSeq(s, 3, Len(s)), NUL)
       IN IF Len(bs) # 3 THEN ParseErr
          ELSE IF ~file_name(bs[1]).some THEN ParseErr
          ELSE IF Mode_parse(bs[2]) = "None" THEN ParseErr
          ELSE [tag |-> "Ok", kind |-> "WRQ", filename |-> file_name(bs[1]).name,
                mode |-> Mode_parse(bs[2])]

\* InitialPacket::parse
InitialPacket_parse(s) ==
  IF Len(s) < 2 THEN ParsePanic
  ELSE IF from_be_bytes(s[1], s[2]) = OPCODE_RRQ THEN ReadPacket_parse(s)
  ELSE IF from_be_bytes(s[1], s[2]) = OPCODE_WRQ THEN WritePacket_parse(s)
  ELSE ParseErr

\* No handler is running.
SessionIdle ==
  /\ req = [kind |-> "none", mode |-> "OCTET"]
  /\ fs_result = "None" /\ base_file = NoFile /\ temp_exists = FALSE
  /\ client_data = <<>> /\ pc = "off" /\ fail = "none"
  /\ rrq_state = Rrq_new /\ wrq_state = Wrq_new
  /\ file = File_new(<<>>, "OCTET")
  /\ rcvd = <<>> /\ sent = [pkts |-> <<>>, repeat |-> 0] /\ ev = NoEvent

\* The requests handed to the parser: every name of up to MaxNameLen bytes out
\* of a letter, '.' and '/', with a mode name in either case or a wrong one,
\* and datagrams that are no requests.
ParseNames == SeqsUpTo({LetterA, Dot, Slash}, MaxNameLen)
ParseModeNames == {OctetName, <<78, 69, 84, 65, 83, 67, 73, 73>>, <<LetterA>>}
ParseInputs ==
  {Request_encode(op, n, m) : op \in {OPCODE_RRQ, OPCODE_WRQ}, n \in ParseNames,
                              m \in ParseModeNames}
    \cup {<<>>, <<NUL>>, ACK_encode(1), to_be_bytes(OPCODE_RRQ),
          to_be_bytes(OPCODE_WRQ) \o <<LetterA, NUL>>}

ParseInit ==
  /\ parse_in \in ParseInputs
  /\ parse_out = NotParsed
  /\ SessionIdle
  /\ ListenerIdle
  /\ AdapterIdle
  /\ RaceIdle

\* packet::InitialPacket::parse(&client_buf[..client_n])
Parse ==
  /\ parse_out = NotParsed
  /\ parse_out' = InitialPacket_parse(parse_in)
  /\ UNCHANGED <<parse_in, session_vars, listener_vars, adapter_vars, race_vars>>

ParseNext == Parse

ParseSpec == ParseInit /\ [][ParseNext]_vars

(***************************************************************************)
(* The File adapter on its own (file.rs): a caller that reads a file block *)
(* after block as test_read_512_multiple_bytes does, or that writes a      *)
(* sequence of buffers with one call of write each as                      *)
(* test_write_with_newlines does.                                          *)
(***************************************************************************)
\* The consecutive non-empty pieces of s, from index from, cut after every
\* index in C.
RECURSIVE cut(_, _, _)
cut(s, C, from) ==
  IF from > Len(s) THEN <<>>
  ELSE LET ends == {c \in C : c >= from}
           e == IF ends = {} THEN Len(s) ELSE CHOOSE c \in ends : \A d \in ends : c <= d
       IN <<SubSeq(s, from, e)>> \o cut(s, C, e + 1)

\* File::open(path, mode) of a file with some contents.
AdapterInitRead ==
  /\ ad_op = "read"
  /\ ad_src \in Files
  /\ ad_chunks = <<>>
  /\ \E mode \in Modes : ad_file = File_new(ad_src, mode)

\* File::create(path, mode), and the buffers a caller holds: the encoding of
\* some bytes x, cut in some way.
AdapterInitWrite ==
  /\ ad_op = "write"
  /\ ad_src \in WireFiles
  /\ \E mode \in Modes :
       /\ ad_file = File_new(<<>>, mode)
       /\ \E C \in SUBSET (1..(Len(encode_bytes(ad_src, mode)) - 1)) :
            ad_chunks = cut(encode_bytes(ad_src, mode), C, 1)

AdapterInit ==
  /\ AdapterInitRead \/ AdapterInitWrite
  /\ ad_outs = <<>>
  /\ SessionIdle
  /\ ListenerIdle
  /\ ParseIdle
  /\ RaceIdle

\* assert!(my_file.has_next()); my_file.read(&mut my_buf)
AdapterRead ==
  /\ ad_op = "read"
  /\ Len(ad_outs) < MaxReads
  /\ LET r == File_read(ad_file)
     IN /\ ad_file' = r.file
        /\ ad_outs' = Append(ad_outs, [has_next |-> File_has_next(ad_file), out |-> r.out])
  /\ UNCHANGED <<ad_op, ad_src, ad_chunks, session_vars, listener_vars, parse_vars,
                 race_vars>>

\* my_file.write(buf) with the next buffer
AdapterWrite ==
  /\ ad_op = "write"
  /\ Len(ad_outs) < Len(ad_chunks)
  /\ LET r == File_write(ad_file, ad_chunks[Len(ad_outs) + 1])
     IN /\ ad_file' = r.file
        /\ ad_op' = IF r.panic THEN "panicked" ELSE "write"
        /\ ad_outs' = Append(ad_outs, [n |-> r.n])
  /\ UNCHANGED <<ad_src, ad_chunks, session_vars, listener_vars, parse_vars,
                 race_vars>>

AdapterNext == AdapterRead \/ AdapterWrite

AdapterSpec == AdapterInit /\ [][AdapterNext]_vars

(***************************************************************************)
(* The listener (TftpServer::run) with the sockets on the server's address *)
(* and the handlers it spawns, each seen through the socket it was given.  *)
(***************************************************************************)
ServerPorts == {69, 49152}
Clients == {"c1", "c2"}

\* socket::create_udp_socket(addr): a new socket with SO_REUSEPORT and
\* SO_REUSEADDR, bound to the port of addr, not connected.
create_udp_socket(port) ==
  [port |-> port, peer |-> "none", open |-> TRUE, inbox |-> <<>>, sent_on |-> FALSE,
   rcvd_peer |-> FALSE]

\* A socket that was dropped.
closed_socket(port) ==
  [port |-> port, peer |-> "none", open |-> FALSE, inbox |-> <<>>, sent_on |-> FALSE,
   rcvd_peer |-> FALSE]

\* The state after TftpServer::bind, at the entry of run.
ListenerInit ==
  /\ lpc = "recv"
  /\ \E p \in ServerPorts : socks = <<create_udp_socket(p)>>
  /\ pending = NoRequest
  /\ sessions = <<>>
  /\ term = FALSE
  /\ SessionIdle
  /\ ParseIdle
  /\ AdapterIdle
  /\ RaceIdle

\* What clients send to the server's address: two requests, a request with no
\* file name, a datagram of another type and a datagram of one byte.
ListenerDatagrams ==
  {Request_encode(OPCODE_RRQ, <<LetterA>>, OctetName),
   Request_encode(OPCODE_WRQ, <<LetterA>>, NetasciiName),
   Request_encode(OPCODE_WRQ, <<>>, OctetName),
   ACK_encode(1), <<NUL>>}

\* The sockets a datagram from src to the port may be queued on: a socket
\* connected to src when there is one, else any socket that is not connected
\* (the sockets share the port through SO_REUSEPORT).
Demux(src, port) ==
  LET on_port == {i \in DOMAIN socks : socks[i].open /\ socks[i].port = port}
      connected == {i \in on_port : socks[i].peer = src}
  IN IF connected # {} THEN connected
     ELSE {i \in on_port : socks[i].peer = "none"}

\* A datagram from a client reaches the server's address and is queued on a
\* socket that is not connected (one that reaches a connected socket is taken
\* by its handler in SessionRecv).
Deliver ==
  /\ lpc # "off"
  /\ \E src \in Clients, bytes \in ListenerDatagrams :
       \E t \in Demux(src, socks[1].port) :
         /\ socks[t].peer = "none"
         /\ Len(socks[t].inbox) < MaxInbox
         /\ socks' = [socks EXCEPT ![t].inbox = Append(@, [src |-> src, bytes |-> bytes])]
  /\ UNCHANGED <<lpc, pending, sessions, term, session_vars, parse_vars, adapter_vars, race_vars>>

\* A variant of the first half of a pass that takes every request to the arm
\* of a read request.
ListenerOnRequest_as_rrq(ss, r, src, created) ==
  IF created
    THEN [lpc |-> "connect",
          socks |-> Append(ss, create_udp_socket(ss[1].port)),
          pending |-> [kind |-> "RRQ", filename |-> r.filename, mode |-> r.mode,
                       client |-> src, sock |-> Len(ss) + 1]]
  ELSE [lpc |-> "recv", socks |-> ss, pending |-> NoRequest]

\* The arms of a request that parsed, up to create_udp_socket(server_addr):
\* the child socket is bound to the listener's own address and port.
ListenerOnRequest(ss, r, src, created) ==
  IF created
    THEN [lpc |-> "connect",
          socks |-> Append(ss, create_udp_socket(ss[1].port)),
          pending |-> [kind |-> r.kind, filename |-> r.filename, mode |-> r.mode,
                       client |-> src, sock |-> Len(ss) + 1]]
  ELSE [lpc |-> "recv", socks |-> ss, pending |-> NoRequest]

\* while !term.load(Ordering::Relaxed): where the listener is once a pass has
\* ended at l, the flag being t.
loop_condition(l, t) == IF l = "recv" /\ t THEN "stopped" ELSE l

\* One pass of the loop up to the creation of the child socket: recv_from on
\* the listener's socket, InitialPacket::parse, create_udp_socket.
ListenerAccept ==
  /\ lpc = "recv"
  /\ socks[1].inbox # <<>>
  /\ Len(sessions) < MaxSessions
  /\ LET m == Head(socks[1].inbox)
         r == InitialPacket_parse(m.bytes)
         ss == [socks EXCEPT ![1].inbox = Tail(@)]
     IN IF r.tag = "Panic"
          THEN lpc' = "panicked" /\ socks' = ss /\ UNCHANGED pending
        ELSE IF r.tag = "Err"
          THEN lpc' = loop_condition("recv", term) /\ socks' = ss /\ UNCHANGED pending
        ELSE \E created \in BOOLEAN :
               LET n == ListenerOnRequest(ss, r, m.src, created)
               IN /\ lpc' = loop_condition(n.lpc, term)
                  /\ socks' = n.socks /\ pending' = n.pending
  /\ UNCHANGED <<sessions, term, session_vars, parse_vars, adapter_vars, race_vars>>

\* A variant of the second half of a pass that spawns without connect.
ListenerOnChild_unconnected(ss, pd, ok) ==
  IF ok
    THEN [lpc |-> "recv", socks |-> ss,
          spawned |-> <<[kind |-> pd.kind, peer |-> pd.client, filename |-> pd.filename,
                         mode |-> pd.mode, sock |-> pd.sock, live |-> TRUE]>>]
  ELSE [lpc |-> "failed",
        socks |-> [ss EXCEPT ![pd.sock] = closed_socket(@.port)],
        spawned |-> <<>>]

\* A variant of the second half of a pass that runs the handler in the
\* listener's own thread.
ListenerOnChild_inline(ss, pd, ok) ==
  IF ok
    THEN [lpc |-> "handler", socks |-> [ss EXCEPT ![pd.sock].peer = pd.client],
          spawned |-> <<[kind |-> pd.kind, peer |-> pd.client, filename |-> pd.filename,
                         mode |-> pd.mode, sock |-> pd.sock, live |-> TRUE]>>]
  ELSE [lpc |-> "failed",
        socks |-> [ss EXCEPT ![pd.sock] = closed_socket(@.port)],
        spawned |-> <<>>]

\* The rest of the pass: set_read_timeout, set_write_timeout, connect, each
\* ending run with its error, then spawn_rrq or spawn_wrq.
ListenerOnChild(ss, pd, ok) ==
  IF ok
    THEN [lpc |-> "recv", socks |-> [ss EXCEPT ![pd.sock].peer = pd.client],
          spawned |-> <<[kind |-> pd.kind, peer |-> pd.client, filename |-> pd.filename,
                         mode |-> pd.mode, sock |-> pd.sock, live |-> TRUE]>>]
  ELSE [lpc |-> "failed",
        socks |-> [ss EXCEPT ![pd.sock] = closed_socket(@.port)],
        spawned |-> <<>>]

ListenerDispatch ==
  /\ lpc = "connect"
  /\ \E ok \in BOOLEAN :
       LET n == ListenerOnChild(socks, pending, ok)
       IN /\ lpc' = loop_condition(n.lpc, term)
          /\ socks' = n.socks /\ sessions' = sessions \o n.spawned
  /\ pending' = NoRequest
  /\ UNCHANGED <<term, session_vars, parse_vars, adapter_vars, race_vars>>

\* recv_from on the listener's socket returned an error that is neither
\* WouldBlock nor Interrupted.
ListenerRecvError ==
  /\ lpc = "recv"
  /\ lpc' = "failed"
  /\ UNCHANGED <<socks, pending, sessions, term, session_vars, parse_vars, adapter_vars, race_vars>>

\* recv_from on the listener's socket returned WouldBlock (the read timeout of
\* one second set by bind) or Interrupted: continue, to the loop condition.
ListenerTimeout ==
  /\ lpc = "recv"
  /\ lpc' = loop_condition("recv", term)
  /\ UNCHANGED <<socks, pending, sessions, term, session_vars, parse_vars, adapter_vars, race_vars>>

\* A termination signal arrives while run is in its loop: the handler that
\* signal_hook::flag::register installed sets the flag.
TermSignal ==
  /\ lpc \in {"recv", "connect"}
  /\ ~term
  /\ term' = TRUE
  /\ UNCHANGED <<lpc, socks, pending, sessions, session_vars, parse_vars, adapter_vars, race_vars>>

\* Handler i sends a datagram: sock.send_to on the socket it was given.
SessionSendOf(i) ==
  /\ sessions[i].live
  /\ socks' = [socks EXCEPT ![sessions[i].sock].sent_on = TRUE]
  /\ UNCHANGED <<lpc, pending, sessions, term, session_vars, parse_vars, adapter_vars, race_vars>>

SessionSend == \E i \in DOMAIN sessions : SessionSendOf(i)

\* Handler i receives a datagram: sock.recv_from on the socket it was given
\* returns the oldest datagram queued on it before it was connected, or else
\* a datagram that the address sends and that reaches this socket.
SessionRecvOf(i) ==
  /\ sessions[i].live
  /\ IF socks[sessions[i].sock].inbox # <<>>
       THEN socks' = [socks EXCEPT ![sessions[i].sock].inbox = Tail(@)]
     ELSE \E src \in Clients :
            /\ sessions[i].sock \in Demux(src, socks[sessions[i].sock].port)
            /\ socks' = [socks EXCEPT ![sessions[i].sock].rcvd_peer =
                                         @ \/ src = sessions[i].peer]
  /\ UNCHANGED <<lpc, pending, sessions, term, session_vars, parse_vars, adapter_vars, race_vars>>

SessionRecv == \E i \in DOMAIN sessions : SessionRecvOf(i)

\* Handler i returns: its socket is dropped.
SessionEndOf(i) ==
  /\ sessions[i].live
  /\ sessions' = [sessions EXCEPT ![i].live = FALSE]
  /\ socks' = [socks EXCEPT ![sessions[i].sock] = closed_socket(@.port)]
  /\ UNCHANGED <<lpc, pending, term, session_vars, parse_vars, adapter_vars, race_vars>>

SessionEnd == \E i \in DOMAIN sessions : SessionEndOf(i)

ListenerNext ==
  \/ Deliver
  \/ ListenerAccept
  \/ ListenerDispatch
  \/ ListenerRecvError
  \/ ListenerTimeout
  \/ TermSignal
  \/ SessionSend
  \/ SessionRecv
  \/ SessionEnd

ListenerSpec == ListenerInit /\ [][ListenerNext]_vars

\* recv_from on the listener's socket returns within its read timeout, and
\* the calls of a pass return.
ListenerFairSpec ==
  /\ ListenerSpec
  /\ WF_vars(ListenerTimeout)
  /\ WF_vars(ListenerAccept)
  /\ WF_vars(ListenerDispatch)

(***************************************************************************)
(* Two Receivers of the same file name that have left their loops and      *)
(* publish side by side (server.rs 447-455).  Each has staged its upload   *)
(* in a file of its own, temp_dir/<filename>.<generate_random_name()>, the *)
(* two random names being taken as different.  fs::copy opens the          *)
(* destination with create and truncate and then writes the bytes of the   *)
(* staging file from the offset of its own file descriptor, as in          *)
(* PublishSpec; the steps of the two handlers interleave.                  *)
(***************************************************************************)
\* What a handler may have staged.
StagedFiles == SeqsUpTo({LetterA, LF}, MaxStaged)

\* pwrite: the bytes of a file after chunk is written at offset off, the gap
\* up to off, if any, reading as zero bytes.
write_at(bytes, off, chunk) ==
  LET padded == IF Len(bytes) < off
                  THEN bytes \o [i \in 1..(off - Len(bytes)) |-> NUL]
                ELSE bytes
  IN SubSeq(padded, 1, off) \o chunk
       \o SubSeq(padded, off + Len(chunk) + 1, Len(padded))

RaceInit ==
  /\ racers \in [1..2 -> [staged : StagedFiles, pc : {"publish"}, off : {0}]]
  /\ dest \in {NoFile, OldFile}
  /\ SessionIdle
  /\ ListenerIdle
  /\ ParseIdle
  /\ AdapterIdle

\* fs::copy of handler i creates the destination or truncates the file that
\* is there, or fails.
RaceCopyOpenOf(i) ==
  /\ racers[i].pc = "publish"
  /\ \/ /\ dest' = [exists |-> TRUE, bytes |-> <<>>]
        /\ racers' = [racers EXCEPT ![i].pc = "copying"]
     \/ /\ racers' = [racers EXCEPT ![i].pc = "failed"]
        /\ UNCHANGED dest
  /\ UNCHANGED <<session_vars, listener_vars, parse_vars, adapter_vars>>

RaceCopyOpen == \E i \in DOMAIN racers : RaceCopyOpenOf(i)

\* fs::copy of handler i writes the next bytes of its staging file, or fails.
RaceCopyWriteOf(i) ==
  /\ racers[i].pc = "copying"
  /\ racers[i].off < Len(racers[i].staged)
  /\ \/ \E n \in (racers[i].off + 1)..Len(racers[i].staged) :
          /\ dest' = [exists |-> TRUE,
                      bytes |-> write_at(dest.bytes, racers[i].off,
                                         SubSeq(racers[i].staged, racers[i].off + 1, n))]
          /\ racers' = [racers EXCEPT ![i].off = n]
     \/ /\ racers' = [racers EXCEPT ![i].pc = "failed"]
        /\ UNCHANGED dest
  /\ UNCHANGED <<session_vars, listener_vars, parse_vars, adapter_vars>>

RaceCopyWrite == \E i \in DOMAIN racers : RaceCopyWriteOf(i)

\* fs::copy of handler i returned Ok: fs::remove_file of its staging file,
\* then Ok(()) or the error of remove_file.
RaceCopyEndOf(i) ==
  /\ racers[i].pc = "copying"
  /\ racers[i].off = Len(racers[i].staged)
  /\ \E rm \in fs_remove_results :
       racers' = [racers EXCEPT ![i].pc = IF rm = "Ok" THEN "done" ELSE "failed"]
  /\ UNCHANGED <<dest, session_vars, listener_vars, parse_vars, adapter_vars>>

RaceCopyEnd == \E i \in DOMAIN racers : RaceCopyEndOf(i)

RaceNext == RaceCopyOpen \/ RaceCopyWrite \/ RaceCopyEnd

RaceSpec == RaceInit /\ [][RaceNext]_vars

(***************************************************************************)
(* Vocabulary of the properties                                            *)
(***************************************************************************)
IsRrq == req.kind = "RRQ"
IsWrq == req.kind = "WRQ"

Last(q) == q[Len(q)]

IsData(d) == Data_parse(d.bytes).tag = "Ok"
IsAck(d) == ACK_parse(d.bytes).tag = "Ok"
IsError(d) == Error_parse(d.bytes).tag = "Ok"

\* The DATA packets sent, in the order of their first sending.
SentData == [i \in 1..Len(sent.pkts) |-> Data_parse(sent.pkts[i].bytes)]

\* The datagrams a step sends that are not a repetition of the last one sent.
NewPkts == SubSeq(sent'.pkts, Len(sent.pkts) + 1, Len(sent'.pkts))

\* A step that sends nothing at all.
SendsNothing == sent' = sent

\* The last receive returned a datagram from the session's peer / from elsewhere.
FromPeer(e) == e.kind = "recv" /\ e.src = PeerAddr
FromElsewhere(e) == e.kind = "recv" /\ e.src # PeerAddr

\* The netascii form of a byte sequence: CR -> CR NUL, LF -> CR LF.
RECURSIVE Netascii(_)
Netascii(x) ==
  IF x = <<>> THEN <<>>
  ELSE (IF Head(x) = 13 THEN <<13, 0>> ELSE IF Head(x) = 10 THEN <<13, 10>>
        ELSE <<Head(x)>>) \o Netascii(Tail(x))

\* The payloads of the DATA blocks 1..k sent, end to end.
RECURSIVE PayloadsUpTo(_)
PayloadsUpTo(k) ==
  IF k = 0 THEN <<>>
  ELSE PayloadsUpTo(k - 1)
         \o (CHOOSE p \in {SentData[i].data : i \in {j \in DOMAIN SentData :
                             SentData[j].tag = "Ok" /\ SentData[j].block = k}} : TRUE)

(***************************************************************************)
(* C1: an OCTET RRQ of a file of N bytes that runs to its end has sent     *)
(* exactly N div BLOCK_SIZE + 1 distinct DATA blocks, numbered from 1 in   *)
(* order, all of BLOCK_SIZE bytes but the last, which has N mod BLOCK_SIZE *)
(* bytes (none when N is a multiple of BLOCK_SIZE, N = 0 included).        *)
(***************************************************************************)
C1_DataBlockCount ==
  (IsRrq /\ req.mode = "OCTET" /\ pc = "done") =>
    LET N == Len(base_file.bytes)
        K == (N \div BLOCK_SIZE) + 1
    IN /\ Len(SentData) = K
       /\ Cardinality({sent.pkts[i] : i \in 1..Len(sent.pkts)}) = K
       /\ \A i \in 1..K :
            /\ sent.pkts[i].dst = PeerAddr
            /\ SentData[i].tag = "Ok"
            /\ SentData[i].block = i
            /\ Len(SentData[i].data) = IF i < K THEN BLOCK_SIZE ELSE N % BLOCK_SIZE

C1_Witness ==
  /\ IsRrq /\ req.mode = "OCTET" /\ pc = "done"
  /\ Len(base_file.bytes) = 2 * BLOCK_SIZE
  /\ Len(sent.pkts) = 3
  /\ SentData[3].data = <<>>

C3_LockStep ==
  /\ [](IsRrq /\ pc = "loop" =>
          /\ \A i \in DOMAIN SentData : SentData[i].tag = "Ok" /\ SentData[i].block = i
          /\ Len(SentData) = rrq_state.block)
  /\ [][/\ (IsRrq /\ pc = "loop" /\ \E i \in DOMAIN NewPkts : IsData(NewPkts[i])) =>
             /\ ev' = [kind |-> "recv", src |-> PeerAddr,
                       bytes |-> <<0, 4>> \o to_be_bytes(rrq_state.block)]
             /\ Len(NewPkts) = 1
             /\ Data_parse(NewPkts[1].bytes).block = rrq_state.block + 1
        /\ (IsWrq /\ pc = "loop" /\ \E i \in DOMAIN NewPkts : IsAck(NewPkts[i])) =>
             /\ FromPeer(ev') /\ Data_parse(ev'.bytes).tag = "Ok"
             /\ IsAck(NewPkts[1])
             /\ \A i \in DOMAIN NewPkts : IsAck(NewPkts[i]) => i = 1
             /\ ACK_parse(NewPkts[1].bytes).block = Wrq_block(wrq_state) + 1
       ]_vars

C3_Witness ==
  /\ IsRrq /\ pc = "loop" /\ rrq_state.block = 3
  /\ FromPeer(ev) /\ ev.bytes = <<0, 4, 0, 2>>
  /\ sent.repeat = 1

(***************************************************************************)
(* C4: a Sender whose ACK does not come sends the DATA it holds again at   *)
(* each timeout while it has sent it fewer than 5 times, and at the        *)
(* timeout after the fifth sending fails with a timeout and sends nothing: *)
(* it has then sent that DATA exactly 5 times, and nothing after it.       *)
(***************************************************************************)
C4_SenderRetries ==
  /\ [](IsRrq /\ pc = "failed" /\ fail = "timeout" =>
          /\ Last(sent.pkts) =
               [dst |-> PeerAddr,
                bytes |-> <<0, 3>> \o to_be_bytes(rrq_state.block) \o rrq_state.data]
          /\ sent.repeat = 5
          /\ \A i \in 1..(Len(sent.pkts) - 1) : sent.pkts[i] # Last(sent.pkts))
  /\ [][(IsRrq /\ pc = "loop" /\ ev'.kind = "timeout") =>
          IF sent.repeat < 5
            THEN /\ pc' = "loop"
                 /\ sent' = [sent EXCEPT !.repeat = sent.repeat + 1]
                 /\ rrq_state'.block = rrq_state.block
                 /\ rrq_state'.data = rrq_state.data
          ELSE pc' = "failed" /\ fail' = "timeout" /\ SendsNothing
       ]_vars

C4_Witness ==
  /\ IsRrq /\ pc = "failed" /\ fail = "timeout"
  /\ rrq_state.block = 2 /\ sent.repeat = 5 /\ Len(sent.pkts) = 2

(***************************************************************************)
(* C5: a Receiver whose DATA does not come sends the ACK it holds (ACK(0)  *)
(* included) again at each timeout while it has sent it fewer than 5       *)
(* times, and at the timeout after the fifth sending fails with a timeout: *)
(* it has then sent that ACK exactly 5 times.                              *)
(***************************************************************************)
C5_ReceiverRetries ==
  /\ [](IsWrq /\ pc = "failed" /\ fail = "timeout" =>
          /\ Last(sent.pkts) =
               [dst |-> PeerAddr, bytes |-> <<0, 4>> \o to_be_bytes(Wrq_block(wrq_state))]
          /\ sent.repeat = 5
          /\ \A i \in 1..(Len(sent.pkts) - 1) : sent.pkts[i] # Last(sent.pkts))
  /\ [][(IsWrq /\ pc = "loop" /\ ev'.kind = "timeout") =>
          IF sent.repeat < 5
            THEN /\ pc' = "loop"
                 /\ sent' = [sent EXCEPT !.repeat = sent.repeat + 1]
                 /\ Wrq_block(wrq_state') = Wrq_block(wrq_state)
          ELSE pc' = "failed" /\ fail' = "timeout" /\ SendsNothing
       ]_vars

C5_Witness ==
  /\ IsWrq /\ pc = "failed" /\ fail = "timeout"
  /\ Wrq_block(wrq_state) = 0 /\ sent.repeat = 5 /\ Len(sent.pkts) = 1

C5_WitnessLaterBlock ==
  /\ IsWrq /\ pc = "failed" /\ fail = "timeout"
  /\ Wrq_block(wrq_state) = 1 /\ sent.repeat = 5

(***************************************************************************)
(* C6: a session that ended on retry exhaustion has sent no Error packet,  *)
(* and the last datagram it sent is the DATA (Sender) or ACK (Receiver) it *)
(* was retransmitting, to its peer.                                        *)
(***************************************************************************)
C6_ExhaustionIsSilent ==
  (pc = "failed" /\ fail = "timeout") =>
    /\ \A i \in DOMAIN sent.pkts : ~IsError(sent.pkts[i])
    /\ Last(sent.pkts).dst = PeerAddr
    /\ sent.repeat > 1
    /\ IsRrq => /\ IsData(Last(sent.pkts))
                /\ Data_parse(Last(sent.pkts).bytes).block = rrq_state.block
                /\ Data_parse(Last(sent.pkts).bytes).data = rrq_state.data
    /\ IsWrq => /\ IsAck(Last(sent.pkts))
                /\ ACK_parse(Last(sent.pkts).bytes).block = Wrq_block(wrq_state)

C6_Witness ==
  /\ pc = "failed" /\ fail = "timeout" /\ IsWrq
  /\ Wrq_block(wrq_state) = 2 /\ Len(sent.pkts) = 3

(***************************************************************************)
(* C7: an RRQ whose file cannot be opened because it is not found sends    *)
(* its peer one Error packet, code 1 and message "File not found", and no  *)
(* DATA, and ends; when the open is denied the code is 2.                  *)
(***************************************************************************)
C7_OpenFailure ==
  (IsRrq /\ fs_result \in {"NotFound", "PermissionDenied"}) =>
    /\ pc = "failed" /\ fail = "open"
    /\ Len(sent.pkts) = 1 /\ sent.repeat = 1
    /\ sent.pkts[1].dst = PeerAddr
    /\ Error_parse(sent.pkts[1].bytes).tag = "Ok"
    /\ fs_result = "NotFound" =>
         /\ Error_parse(sent.pkts[1].bytes).code = 1
         /\ Error_parse(sent.pkts[1].bytes).msg =
              <<70, 105, 108, 101, 32, 110, 111, 116, 32, 102, 111, 117, 110, 100>>
    /\ fs_result = "PermissionDenied" => Error_parse(sent.pkts[1].bytes).code = 2

C7_Witness ==
  /\ IsRrq /\ ~base_file.exists /\ fs_result = "NotFound" /\ pc = "failed"
  /\ Len(sent.pkts) = 1

C7_WitnessDenied ==
  /\ IsRrq /\ base_file.exists /\ fs_result = "PermissionDenied" /\ pc = "failed"

(***************************************************************************)
(* C8: an ACK from the peer whose block is not the block the Sender holds  *)
(* makes it send nothing and leaves its block, its payload, its trial      *)
(* counter and the file adapter (offset and buffers) as they were.         *)
(***************************************************************************)
C8_StaleAckIgnored ==
  [][(/\ IsRrq /\ pc = "loop" /\ FromPeer(ev')
      /\ ACK_parse(ev'.bytes).tag = "Ok"
      /\ ACK_parse(ev'.bytes).block # rrq_state.block) =>
       /\ SendsNothing
       /\ UNCHANGED <<rrq_state, file, pc, fail>>
    ]_vars

C8_Witness ==
  /\ IsRrq /\ pc = "loop" /\ FromPeer(ev)
  /\ ACK_parse(ev.bytes).tag = "Ok"
  /\ ACK_parse(ev.bytes).block = rrq_state.block - 1
  /\ rrq_state.block = 2 /\ rrq_state.trial_count = 3

(***************************************************************************)
(* C9: a datagram from another address than the peer's makes   *)
(* the session send an Error packet with code 5 to that address.           *)
(***************************************************************************)
C9_ForeignGetsUnknownTid ==
  [][(pc = "loop" /\ FromElsewhere(ev')) =>
       /\ sent' # sent
       /\ Last(sent'.pkts).dst = ev'.src
       /\ Error_parse(Last(sent'.pkts).bytes).tag = "Ok"
       /\ Error_parse(Last(sent'.pkts).bytes).code = 5
    ]_vars

(***************************************************************************)
(* C10: a datagram from another address than the peer's, whatever it       *)
(* holds, leaves the session where it was: block, trial counter, payload   *)
(* held, file adapter, staging file and published file are unchanged.      *)
(***************************************************************************)
C10_ForeignChangesNothing ==
  [][(pc = "loop" /\ FromElsewhere(ev')) =>
       UNCHANGED <<rrq_state, wrq_state, file, base_file, temp_exists, fs_result,
                   pc, fail>>
    ]_vars

C10_Witness ==
  /\ IsRrq /\ pc = "loop" /\ FromElsewhere(ev)
  /\ ev.bytes = ACK_encode(rrq_state.block)
  /\ File_has_next(file)

C10_WitnessReceiver ==
  /\ IsWrq /\ pc = "loop" /\ FromElsewhere(ev)
  /\ Data_parse(ev.bytes).tag = "Ok"
  /\ Data_parse(ev.bytes).block = Wrq_block(wrq_state) + 1

(***************************************************************************)
(* Vocabulary of the Receiver's properties                                 *)
(***************************************************************************)
\* The step takes a well-formed DATA from the peer.
TakesData == IsWrq /\ pc = "loop" /\ FromPeer(ev') /\ Data_parse(ev'.bytes).tag = "Ok"

\* The DATA the step takes.
TakenData == Data_parse(ev'.bytes)

AckTo(b) == [dst |-> PeerAddr, bytes |-> ACK_encode(b)]

\* The netascii decoding of a byte sequence: CR NUL -> CR, CR LF -> LF.
RECURSIVE NetasciiDecode(_)
NetasciiDecode(x) ==
  IF x = <<>> THEN <<>>
  ELSE IF Len(x) >= 2 /\ x[1] = 13 /\ x[2] = 0
    THEN <<13>> \o NetasciiDecode(SubSeq(x, 3, Len(x)))
  ELSE IF Len(x) >= 2 /\ x[1] = 13 /\ x[2] = 10
    THEN <<10>> \o NetasciiDecode(SubSeq(x, 3, Len(x)))
  ELSE <<x[1]>> \o NetasciiDecode(Tail(x))

\* A byte sequence in which every CR is followed by NUL or LF.
RECURSIVE NetasciiWellFormed(_)
NetasciiWellFormed(x) ==
  IF x = <<>> THEN TRUE
  ELSE IF x[1] = 13
    THEN Len(x) >= 2 /\ x[2] \in {0, 10} /\ NetasciiWellFormed(SubSeq(x, 3, Len(x)))
  ELSE NetasciiWellFormed(Tail(x))

\* The client uploads OCTET bytes, or a valid netascii stream.
UploadWellFormed == req.mode = "NETASCII" => NetasciiWellFormed(client_data)

(***************************************************************************)
(* C11: the first packet of a Receiver is ACK(0); a DATA from the peer     *)
(* that carries the block after the last one acknowledged is answered by   *)
(* the ACK of that block, and after the first DATA shorter than            *)
(* BLOCK_SIZE the Receiver leaves its loop to publish, after a full one it *)
(* waits for the next.  Stated for the uploads that are OCTET or valid     *)
(* netascii.                                                               *)
(***************************************************************************)
C11_AcksFollowData ==
  /\ []((IsWrq /\ sent.pkts # <<>>) => sent.pkts[1] = AckTo(0))
  /\ [][(TakesData /\ UploadWellFormed /\ TakenData.block = Wrq_block(wrq_state) + 1) =>
          /\ Len(NewPkts) >= 1
          /\ NewPkts[1] = AckTo(TakenData.block)
          /\ Wrq_block(wrq_state') = TakenData.block
          /\ IF Len(TakenData.data) < BLOCK_SIZE
               THEN pc' = "done" \/ (pc' = "failed" /\ fail' \in {"copy", "remove"})
             ELSE pc' = "loop"
       ]_vars

(***************************************************************************)
(* C12: an OCTET WRQ that ends Done has published exactly the bytes the    *)
(* client uploads: its blocks 1..n end to end, each once.                  *)
(***************************************************************************)
C12_PublishedIsTheUpload ==
  (IsWrq /\ req.mode = "OCTET" /\ pc = "done") =>
    /\ base_file.exists
    /\ base_file.bytes = client_data

(***************************************************************************)
(* C13: a NETASCII WRQ that ends Done has published the netascii decoding  *)
(* of the payloads it received, end to end.                                *)
(***************************************************************************)
C13_PublishedIsDecoded ==
  (IsWrq /\ req.mode = "NETASCII" /\ pc = "done") =>
    /\ base_file.exists
    /\ base_file.bytes = NetasciiDecode(rcvd)

(***************************************************************************)
(* C14: a DATA from the peer whose block is not the one after the last     *)
(* block acknowledged makes the Receiver send its last ACK again and       *)
(* leaves its block where it was, without resetting the trial counter.     *)
(***************************************************************************)
C14_OutOfOrderDataReAcked ==
  [][(TakesData /\ TakenData.block # Wrq_block(wrq_state) + 1) =>
       /\ sent'.pkts = sent.pkts
       /\ sent'.repeat = sent.repeat + 1
       /\ Wrq_block(wrq_state') = Wrq_block(wrq_state)
       /\ wrq_state'.trial_count >= wrq_state.trial_count
       /\ pc' = "loop"
    ]_vars

(***************************************************************************)
(* C15: while a Receiver has not taken the final DATA, and whenever it has *)
(* ended in failure, there is nothing at base_dir/<filename>.              *)
(***************************************************************************)
C15_NothingPublishedUnlessDone ==
  (IsWrq /\ pc # "done") => base_file = NoFile

(***************************************************************************)
(* C16: a Receiver whose fs::copy into the base directory failed has sent, *)
(* after the ACK of the final block, exactly one Error packet, with code 1 *)
(* and "File not found" for NotFound, code 2 for PermissionDenied, code 0  *)
(* otherwise, and has ended in failure with nothing published.             *)
(***************************************************************************)
C16_PublishFailureReported ==
  (IsWrq /\ pc = "failed" /\ fail = "copy") =>
    /\ fs_result \in IoErrors
    /\ Len(sent.pkts) >= 2
    /\ sent.repeat = 1
    /\ Last(sent.pkts).dst = PeerAddr
    /\ Error_parse(Last(sent.pkts).bytes).tag = "Ok"
    /\ Error_parse(Last(sent.pkts).bytes).code =
         (IF fs_result = "NotFound" THEN 1
          ELSE IF fs_result = "PermissionDenied" THEN 2 ELSE 0)
    /\ fs_result = "NotFound" =>
         Error_parse(Last(sent.pkts).bytes).msg = MsgFileNotFound
    /\ sent.pkts[Len(sent.pkts) - 1] = AckTo(Wrq_block(wrq_state))
    /\ Cardinality({i \in DOMAIN sent.pkts : IsError(sent.pkts[i])}) = 1
    /\ base_file = NoFile

C16_Witness ==
  /\ IsWrq /\ pc = "failed" /\ fail = "copy"
  /\ fs_result = "NotFound"
  /\ Wrq_block(wrq_state) = 2
  /\ Len(rcvd) = BLOCK_SIZE + 1

(***************************************************************************)
(* Vocabulary of the properties of request parsing                         *)
(***************************************************************************)
\* The name a request datagram carries: its bytes after the opcode up to the
\* first zero byte.
RawName(d) ==
  LET body == SubSeq(d, 3, Len(d))
      z == {i \in DOMAIN body : body[i] = 0}
  IN IF z = {} THEN body
     ELSE SubSeq(body, 1, (CHOOSE i \in z : \A j \in z : i <= j) - 1)

\* What may follow the terminal component of a path: '/' and "/." only.
TrailerOk(t) ==
  /\ t # <<>> => t[1] = 47
  /\ \A i \in DOMAIN t :
       /\ t[i] \in {47, 46}
       /\ t[i] = 46 => (i > 1 /\ t[i - 1] = 47 /\ (i = Len(t) \/ t[i + 1] = 47))

\* f is the terminal component of the path raw.
IsTerminalOf(f, raw) ==
  \E i \in 1..Len(raw) : \E j \in i..Len(raw) :
    /\ SubSeq(raw, i, j) = f
    /\ i = 1 \/ raw[i - 1] = 47
    /\ TrailerOk(SubSeq(raw, j + 1, Len(raw)))

\* Names without a terminal component: empty, "/", "..", or ending in "/..".
HasNoTerminal(raw) ==
  \/ raw = <<>>
  \/ raw = <<47>>
  \/ raw = <<46, 46>>
  \/ Len(raw) >= 3 /\ SubSeq(raw, Len(raw) - 2, Len(raw)) = <<47, 46, 46>>

(***************************************************************************)
(* C20: the filename of a request that parsed is the terminal component of *)
(* the name sent: it is not empty, holds no '/', and is neither ".." nor   *)
(* ".", so that base_dir joined with it is a direct child of base_dir; a   *)
(* request whose name is empty, "/", ".." or ends in "/.." does not parse. *)
(***************************************************************************)
C20_FilenameIsTerminalComponent ==
  /\ parse_out.tag = "Ok" =>
       /\ parse_out.filename # <<>>
       /\ \A i \in DOMAIN parse_out.filename : parse_out.filename[i] # 47
       /\ parse_out.filename # <<46, 46>>
       /\ parse_out.filename # <<46>>
       /\ IsTerminalOf(parse_out.filename, RawName(parse_in))
  /\ (parse_out # NotParsed /\ HasNoTerminal(RawName(parse_in))) =>
       parse_out.tag \in {"Err", "Panic"}

C20_Witness ==
  /\ parse_out.tag = "Ok"
  /\ parse_out.kind = "WRQ"
  /\ RawName(parse_in) = <<46, 46, 47, 97>>
  /\ parse_out.filename = <<97>>

C20_WitnessRejected ==
  /\ parse_out.tag = "Err"
  /\ RawName(parse_in) = <<97, 47, 46, 46>>
  /\ Mode_parse(split(SubSeq(parse_in, 3, Len(parse_in)), 0)[2]) = "OCTET"

(***************************************************************************)
(* The listener                                                            *)
(***************************************************************************)
\* The step is recv_from on the listener's socket returning a datagram.
ListenerTakes ==
  /\ lpc = "recv"
  /\ socks[1].inbox # <<>>
  /\ Len(socks'[1].inbox) < Len(socks[1].inbox)

\* The request the listener takes in this step, as InitialPacket::parse sees it.
TakenRequest == InitialPacket_parse(Head(socks[1].inbox).bytes)

\* The step starts exactly one handler, of the kind and for the peer given.
StartsHandler(kind, peer) ==
  /\ Len(sessions') = Len(sessions) + 1
  /\ SubSeq(sessions', 1, Len(sessions)) = sessions
  /\ sessions'[Len(sessions')].kind = kind
  /\ sessions'[Len(sessions')].peer = peer
  /\ sessions'[Len(sessions')].live

\* The step starts no handler.
StartsNothing == Len(sessions') = Len(sessions)

\* No socket of the server sends in the step.
NoSocketSends ==
  /\ Len(socks') >= Len(socks)
  /\ \A i \in DOMAIN socks : socks'[i].sent_on = socks[i].sent_on

\* C17 (as stated): every datagram the listener receives that decodes as a
\* valid RRQ starts the RRQ handler exactly once with the datagram's source as
\* peer, every valid WRQ starts the WRQ handler exactly once, and any other
\* datagram starts no session and sends nothing.
C17_RequestStartsHandler ==
  [][ /\ (ListenerTakes /\ TakenRequest.tag = "Ok")
         => /\ lpc' = "connect"
            /\ pending'.kind = TakenRequest.kind
            /\ pending'.client = Head(socks[1].inbox).src
      /\ (ListenerTakes /\ TakenRequest.tag # "Ok")
         => (StartsNothing /\ lpc' # "connect" /\ NoSocketSends)
      /\ (lpc = "connect" /\ lpc' # "connect")
         => StartsHandler(pending.kind, pending.client)
      /\ (lpc # "connect") => StartsNothing ]_vars

\* C17 (amended): a valid RRQ or WRQ starts the handler of its kind exactly
\* once, with the datagram's source as peer, provided the socket of the session
\* is created and then configured and connected to the source; when the socket
\* is not created no handler is started and the listener goes on, when it is
\* not connected no handler is started and the listener ends; any other
\* datagram starts no session and sends nothing.
C17_RequestStartsHandlerOnSocket ==
  [][ /\ (ListenerTakes /\ TakenRequest.tag = "Ok")
         => \/ /\ Len(socks') = Len(socks) + 1
               /\ lpc' = "connect"
               /\ pending'.kind = TakenRequest.kind
               /\ pending'.client = Head(socks[1].inbox).src
               /\ pending'.sock = Len(socks')
               /\ StartsNothing
            \/ /\ Len(socks') = Len(socks)
               /\ lpc' = (IF term THEN "stopped" ELSE "recv")
               /\ pending' = NoRequest
               /\ StartsNothing
      /\ (ListenerTakes /\ TakenRequest.tag # "Ok")
         => (StartsNothing /\ lpc' # "connect" /\ pending' = NoRequest /\ NoSocketSends)
      /\ (lpc = "connect" /\ lpc' # "connect")
         => \/ /\ socks'[pending.sock].peer = pending.client
               /\ socks'[pending.sock].open
               /\ StartsHandler(pending.kind, pending.client)
               /\ sessions'[Len(sessions')].sock = pending.sock
               /\ lpc' = (IF term THEN "stopped" ELSE "recv")
            \/ /\ ~socks'[pending.sock].open
               /\ StartsNothing
               /\ lpc' = "failed"
      /\ (lpc # "connect") => StartsNothing ]_vars

\* A read request and a write request have each started their handler, for
\* different peers.
C17_Witness ==
  /\ Len(sessions) = 2
  /\ sessions[1].kind = "RRQ" /\ sessions[2].kind = "WRQ"
  /\ sessions[1].peer # sessions[2].peer
  /\ sessions[1].live /\ sessions[2].live

\* The datagram queued on the listener's socket in this step, if any.
ListenerGets ==
  /\ Len(socks'[1].inbox) = Len(socks[1].inbox) + 1
  /\ InitialPacket_parse(socks'[1].inbox[Len(socks'[1].inbox)].bytes).tag # "Ok"

\* C18: once a session is dispatched its datagrams are sent and received on the
\* socket of the session: the listener's socket never sends, and no datagram
\* that is not a request reaches the listener's socket from the peer of a
\* session in flight, however session creation and peer traffic interleave.
C18_ListenerOutOfTransfers ==
  /\ [](socks[1].sent_on = FALSE /\ socks[1].rcvd_peer = FALSE)
  /\ [][ ListenerGets
         => \A i \in DOMAIN sessions :
              sessions[i].live
                => socks'[1].inbox[Len(socks'[1].inbox)].src # sessions[i].peer ]_vars

\* A session in flight has sent and has received from its peer on its own
\* socket while the listener's socket holds an acknowledgement of another
\* address.
C18_Witness ==
  \E i \in DOMAIN sessions :
    /\ sessions[i].live
    /\ socks[sessions[i].sock].sent_on
    /\ socks[sessions[i].sock].rcvd_peer
    /\ socks[1].inbox # <<>>
    /\ Head(socks[1].inbox).bytes = ACK_encode(1)
    /\ Head(socks[1].inbox).src # sessions[i].peer

\* C19: the socket of every session in flight is bound to a port that differs
\* from the listener's port and from the port of every other session in flight.
C19_SessionPortsDiffer ==
  \A i \in DOMAIN sessions :
    sessions[i].live
      => /\ socks[sessions[i].sock].port # socks[1].port
         /\ \A j \in DOMAIN sessions :
              (j # i /\ sessions[j].live)
                => socks[sessions[j].sock].port # socks[sessions[i].sock].port

(***************************************************************************)
(* The File adapter on its own                                             *)
(***************************************************************************)
\* The buffers handed to write so far, end to end, and all of them.
RECURSIVE Concat(_)
Concat(q) == IF q = <<>> THEN <<>> ELSE Head(q) \o Concat(Tail(q))

\* All the buffers have been written.
AllWritten == ad_op = "write" /\ Len(ad_outs) = Len(ad_chunks)

(***************************************************************************)
(* C21: the buffers being the netascii form of bytes x cut in any way into *)
(* consecutive pieces (between a CR and the NUL or LF after it included),  *)
(* a NETASCII File that is handed them with one call of write each holds   *)
(* exactly x once the last is written, with no byte held back, and no call *)
(* panics; with a single buffer this is decode(encode(x)) = x.             *)
(***************************************************************************)
C21_WriteRoundTrip ==
  /\ ad_op # "panicked"
  /\ (ad_op = "write" /\ ad_file.mode = "NETASCII") =>
       /\ Concat(ad_chunks) = Netascii(ad_src)
       /\ AllWritten => (ad_file.inner = ad_src /\ ad_file.write_buf = <<>>)
       /\ (AllWritten /\ Len(ad_chunks) = 1) => NetasciiDecode(ad_chunks[1]) = ad_src

\* The cuts of test_write_with_newlines: a buffer that ends in CR, one that
\* begins with NUL and ends in CR, one that is LF alone.
C21_Witness ==
  /\ AllWritten /\ ad_file.mode = "NETASCII"
  /\ ad_src = <<13, 10>>
  /\ ad_chunks = << <<13>>, <<0, 13>>, <<10>> >>
  /\ ad_file.inner = <<13, 10>>

\* The blocks read so far that have BLOCK_SIZE bytes / fewer.
FullReads == {i \in DOMAIN ad_outs : Len(ad_outs[i].out) = BLOCK_SIZE}
ShortReads == {i \in DOMAIN ad_outs : Len(ad_outs[i].out) < BLOCK_SIZE}

\* What the file reads as in its mode.
ReadsAs == IF ad_file.mode = "OCTET" THEN ad_src ELSE Netascii(ad_src)

\* The index of the final block of a file.
FinalRead == (Len(ReadsAs) \div BLOCK_SIZE) + 1

(***************************************************************************)
(* C22: for every file and mode the successive reads return BLOCK_SIZE     *)
(* bytes each up to one final block of fewer (none when the length is a    *)
(* multiple of BLOCK_SIZE); has_next() is true before each of them, the    *)
(* final one included, and false from then on, and the reads after the     *)
(* final block return no byte.                                             *)
(***************************************************************************)
C22_BlockReads ==
  ad_op = "read" =>
    /\ \A i \in DOMAIN ad_outs :
         /\ i < FinalRead => (ad_outs[i].has_next /\ Len(ad_outs[i].out) = BLOCK_SIZE)
         /\ i = FinalRead => /\ ad_outs[i].has_next
                             /\ Len(ad_outs[i].out) = Len(ReadsAs) % BLOCK_SIZE
         /\ i > FinalRead => (~ad_outs[i].has_next /\ ad_outs[i].out = <<>>)
    /\ File_has_next(ad_file) = (Len(ad_outs) < FinalRead)
    /\ Len(ad_outs) >= FinalRead =>
         Concat([i \in 1..FinalRead |-> ad_outs[i].out]) = ReadsAs

\* The file of test_read_512_multiple_bytes in small: its netascii form is two
\* full blocks, then come the empty final block and a read after it.
C22_Witness ==
  /\ ad_op = "read" /\ ad_file.mode = "NETASCII"
  /\ ad_src = <<97, 97, 10>>
  /\ Len(ad_outs) = 4
  /\ ad_outs[3].out = <<>> /\ ad_outs[3].has_next
  /\ ~ad_outs[4].has_next

(***************************************************************************)
(* Shutdown                                                                *)
(***************************************************************************)
\* The step leaves every handler spawned, and its socket, as they were.
SessionsUntouched ==
  \A i \in DOMAIN sessions :
    /\ sessions'[i] = sessions[i]
    /\ socks'[sessions[i].sock] = socks[sessions[i].sock]

(***************************************************************************)
(* C23: once the flag is set the listener eventually leaves its loop and   *)
(* run returns Ok; it takes at most one more datagram, the one its receive *)
(* was waiting for, and starts no handler once it has read the flag; the   *)
(* flag and the end of the loop leave the handlers running as they were.   *)
(* Stated for the runs in which no system call of the listener fails: a    *)
(* run that returns the error of recv_from or of connect is let through.   *)
(***************************************************************************)
C23_ShutdownStopsListener ==
  /\ term ~> (lpc \in {"stopped", "failed"})
  /\ [][ /\ (term /\ lpc \in {"recv", "connect"}) => lpc' # "recv" \/ UNCHANGED lpc
         /\ (term /\ ListenerTakes) => lpc' # "recv"
         /\ (lpc = "stopped") => (lpc' = "stopped" /\ StartsNothing)
         /\ (term' # term \/ (lpc' = "stopped" /\ lpc = "recv" /\ ~ListenerTakes))
              => (SessionsUntouched /\ StartsNothing)
       ]_vars

(***************************************************************************)
(* Handlers in threads of their own                                        *)
(***************************************************************************)
\* run has not returned and has not panicked.
ListenerRunning == lpc \notin {"off", "stopped", "failed", "panicked"}

\* The handlers whose record or socket the step changes.
SessionsChanged ==
  {i \in DOMAIN sessions :
     sessions'[i] # sessions[i] \/ socks'[sessions[i].sock] # socks[sessions[i].sock]}

(***************************************************************************)
(* C24: whatever the handlers in flight are doing, a listener that has not *)
(* ended takes the request queued on its socket and dispatches it (up to   *)
(* MaxSessions handlers in the model), and every handler in flight can     *)
(* make its own steps; a step of the listener changes no handler, and a    *)
(* step of a handler changes neither the listener nor another handler.     *)
(***************************************************************************)
C24_NoStall ==
  /\ [](/\ (ListenerRunning /\ lpc # "connect" /\ socks[1].inbox # <<>>
            /\ Len(sessions) < MaxSessions) => ENABLED ListenerAccept
        /\ (ListenerRunning /\ lpc # "recv") => ENABLED ListenerDispatch
        /\ \A i \in DOMAIN sessions :
             sessions[i].live => (ENABLED SessionSendOf(i) /\ ENABLED SessionEndOf(i)))
  /\ [][ /\ Cardinality(SessionsChanged) <= 1
         /\ (lpc' # lpc \/ pending' # pending \/ socks'[1] # socks[1])
              => SessionsChanged = {}
         /\ SessionsChanged # {} => UNCHANGED <<lpc, pending, term>> ]_vars

\* A second request was dispatched while the handler of the first, in flight,
\* had neither sent nor received; the second handler has sent since.
C24_Witness ==
  /\ Len(sessions) = 2
  /\ sessions[1].live /\ sessions[2].live
  /\ ~socks[sessions[1].sock].sent_on /\ ~socks[sessions[1].sock].rcvd_peer
  /\ socks[sessions[2].sock].sent_on
  /\ ListenerRunning

(***************************************************************************)
(* The staging file and its publication                                    *)
(***************************************************************************)
(***************************************************************************)
(* C25: a DATA from the peer whose block is at or below the last block     *)
(* acknowledged (a retransmission of a block already written) adds nothing *)
(* to the staging file.                                                    *)
(***************************************************************************)
C25_RetransmittedDataNotAppended ==
  [][(TakesData /\ TakenData.block <= Wrq_block(wrq_state)) =>
       (file'.inner = file.inner /\ file'.write_buf = file.write_buf)
    ]_vars

(***************************************************************************)
(* C26: what is at base_dir/<filename> changes in one step from what was   *)
(* there before the publication to the complete uploaded file: no state    *)
(* shows anything else there.                                              *)
(***************************************************************************)
C26_PublicationIsAtomic ==
  [][base_file' # base_file =>
       base_file' = [exists |-> TRUE, bytes |-> file.inner]
    ]_vars

\* The Receiver took its final block and its session has ended.
PublicationEnded ==
  IsWrq /\ (pc = "done" \/ (pc = "failed" /\ fail \in {"copy", "remove"}))

(***************************************************************************)
(* C27: once a Receiver that took its final block has ended, whether the   *)
(* publication succeeded or failed, its staging file is gone.              *)
(***************************************************************************)
C27_StagingFileRemoved ==
  PublicationEnded => ~temp_exists

(***************************************************************************)
(* C28: a Receiver that fails because the filesystem has no space left has *)
(* sent its peer, last, an Error packet with code 3.                       *)
(***************************************************************************)
C28_DiskFullReported ==
  (IsWrq /\ pc = "failed" /\ fs_result = "StorageFull") =>
    /\ Last(sent.pkts).dst = PeerAddr
    /\ Error_parse(Last(sent.pkts).bytes).tag = "Ok"
    /\ Error_parse(Last(sent.pkts).bytes).code = 3

(***************************************************************************)
(* Malformed datagrams                                                     *)
(***************************************************************************)
(***************************************************************************)
(* C29: a datagram taken by the listener that is not a valid request, of   *)
(* whatever length and content, is dropped: no handler is started, no      *)
(* socket is made, and the listener is back in its receive (or, the flag   *)
(* being set, at the end of its loop).                                     *)
(***************************************************************************)
C29_ListenerSurvivesMalformed ==
  [][(ListenerTakes /\ TakenRequest.tag # "Ok") =>
       /\ lpc' = (IF term THEN "stopped" ELSE "recv")
       /\ StartsNothing
       /\ pending' = NoRequest
       /\ Len(socks') = Len(socks)
    ]_vars

\* The step takes, from the peer, a datagram that is not a well-formed packet
\* of the type the handler waits for.
TakesMalformed ==
  /\ pc = "loop" /\ FromPeer(ev')
  /\ \/ IsRrq /\ ACK_parse(ev'.bytes).tag # "Ok"
     \/ IsWrq /\ Data_parse(ev'.bytes).tag # "Ok"

(***************************************************************************)
(* C30: a datagram from the peer that is not a well-formed ACK (Sender) or *)
(* DATA (Receiver), the datagrams shorter than the header of four bytes    *)
(* included, makes the handler send nothing and leaves its block, trial    *)
(* counter and file as they were, the handler waiting on.                  *)
(***************************************************************************)
C30_MalformedFromPeerIgnored ==
  [][TakesMalformed =>
       /\ SendsNothing
       /\ UNCHANGED <<rrq_state, wrq_state, file, base_file, temp_exists>>
       /\ pc' = "loop"
    ]_vars

(***************************************************************************)
(* Requests without a usable file name                                     *)
(***************************************************************************)
\* The datagram has the opcode of a request, a mode that parses, and a name
\* that is empty or has no terminal component.
NamelessRequest(d) ==
  /\ Len(d) >= 2
  /\ from_be_bytes(d[1], d[2]) \in {OPCODE_RRQ, OPCODE_WRQ}
  /\ Len(split(SubSeq(d, 3, Len(d)), 0)) = 3
  /\ Mode_parse(split(SubSeq(d, 3, Len(d)), 0)[2]) # "None"
  /\ HasNoTerminal(RawName(d))

(***************************************************************************)
(* C31: the listener that takes an RRQ or WRQ whose file name is empty or  *)
(* has no terminal component starts no handler and answers it: a socket of *)
(* the server (the listener's, the only one it holds then) sends the       *)
(* Error packet of code 2 in that step.                                    *)
(***************************************************************************)
C31_NamelessRequestRejected ==
  [][(ListenerTakes /\ NamelessRequest(Head(socks[1].inbox).bytes)) =>
       /\ StartsNothing
       /\ lpc' # "connect"
       /\ socks'[1].sent_on
    ]_vars

(***************************************************************************)
(* Oversized DATA                                                          *)
(***************************************************************************)
\* The step takes, from the peer, a DATA whose payload is longer than
\* BLOCK_SIZE.
TakesOversized ==
  /\ IsWrq /\ pc = "loop" /\ FromPeer(ev')
  /\ Len(ev'.bytes) > 4 + BLOCK_SIZE
  /\ from_be_bytes(ev'.bytes[1], ev'.bytes[2]) = OPCODE_DATA

(***************************************************************************)
(* C32: a DATA from the peer whose payload is longer than BLOCK_SIZE is    *)
(* rejected by the decoder: the Receiver writes nothing of it to the       *)
(* staging file, stays on its block and sends no ACK of a new block.       *)
(***************************************************************************)
C32_OversizedDataRejected ==
  [][TakesOversized =>
       /\ Data_parse(ev'.bytes).tag # "Ok"
       /\ file'.inner = file.inner /\ file'.write_buf = file.write_buf
       /\ Wrq_block(wrq_state') = Wrq_block(wrq_state)
       /\ \A i \in DOMAIN NewPkts : ~IsAck(NewPkts[i])
    ]_vars

(***************************************************************************)
(* A CR that no NUL or LF follows                                          *)
(***************************************************************************)
\* Some CR of x is followed by a byte other than NUL and LF.
BadCr(x) == \E i \in 1..(Len(x) - 1) : x[i] = 13 /\ x[i + 1] \notin {0, 10}

\* The step hands File::write, in NETASCII, a payload in which (after the CR
\* held back from the payload before, if any) a CR is followed by another byte.
WritesBadCr ==
  /\ TakesData /\ req.mode = "NETASCII"
  /\ BadCr(file.write_buf \o TakenData.data)

(***************************************************************************)
(* C33: the write of a netascii payload in which a CR is followed by a     *)
(* byte other than NUL or LF fails with an error that the handler gets     *)
(* back: the handler does not end by a panic, and none of the payload is   *)
(* written to the staging file.                                            *)
(***************************************************************************)
C33_BadCrIsAnError ==
  [][WritesBadCr =>
       /\ pc' # "panicked"
       /\ file'.inner = file.inner
    ]_vars

(***************************************************************************)
(* C34: no DATA of a NETASCII RRQ ends with a CR.  In the netascii form    *)
(* every CR is the first byte of a pair (CR NUL or CR LF), so a payload    *)
(* that ends with a CR leaves the second byte of its pair to the next      *)
(* block.                                                                  *)
(***************************************************************************)
C34_NoBlockEndsInsidePair ==
  (IsRrq /\ req.mode = "NETASCII") =>
    \A i \in DOMAIN SentData :
      (SentData[i].tag = "Ok" /\ SentData[i].data # <<>>)
        => Last(SentData[i].data) # 13

(***************************************************************************)
(* The block counter at the end of its range                               *)
(***************************************************************************)
\* The step takes, from the peer, the ACK of block U16_MAX while the Sender
\* holds that block and has more to send.
AckOfLastNumber ==
  /\ IsRrq /\ pc = "loop" /\ FromPeer(ev')
  /\ rrq_state.block = U16_MAX
  /\ ev'.bytes = <<0, 4, 255, 255>>
  /\ File_has_next(file)

\* The step takes, from the peer, a DATA that the Receiver writes while the
\* last block it acknowledged is U16_MAX.
DataAfterLastNumber ==
  /\ TakesData
  /\ Wrq_block(wrq_state) = U16_MAX
  /\ write_all(file, TakenData.data).res = "Ok"

(***************************************************************************)
(* C35: the block after block 65535 is block 0 and the transfer goes on:   *)
(* the Sender that gets the ACK of block 65535 sends the next DATA as      *)
(* block 0 and waits for its ACK, the Receiver that acknowledged block     *)
(* 65535 answers the next DATA with ACK 0 and does not end by a panic.     *)
(***************************************************************************)
C35_BlockCounterWraps ==
  [][ /\ AckOfLastNumber =>
           /\ pc' = "loop"
           /\ rrq_state'.block = 0
           /\ Len(NewPkts) = 1
           /\ NewPkts[1] = [dst |-> PeerAddr, bytes |-> <<0, 3, 0, 0>> \o rrq_state'.data]
      /\ DataAfterLastNumber =>
           /\ pc' # "panicked"
           /\ Wrq_block(wrq_state') = 0
           /\ Len(NewPkts) >= 1
           /\ NewPkts[1] = AckTo(0)
    ]_vars

(***************************************************************************)
(* C36: two Receivers of the same file name stage in files of their own,   *)
(* and once both have ended with success base_dir/<filename> holds the     *)
(* complete bytes of one of the two uploads, not a mixture of both.        *)
(***************************************************************************)
C36_LastPublishWins ==
  (racers # <<>> /\ \A i \in DOMAIN racers : racers[i].pc = "done") =>
    /\ dest.exists
    /\ \E i \in DOMAIN racers : dest.bytes = racers[i].staged

(***************************************************************************)
(* The end of a read                                                       *)
(***************************************************************************)
\* The DATA the Sender holds, as sent to its peer.
HeldData ==
  [dst |-> PeerAddr, bytes |-> <<0, 3>> \o to_be_bytes(rrq_state.block) \o rrq_state.data]

\* The Sender holds the final block of its file: a block shorter than
\* BLOCK_SIZE.
HoldsFinalData == IsRrq /\ pc = "loop" /\ Len(rrq_state.data) < BLOCK_SIZE

(***************************************************************************)
(* C37: a Sender ends with success only in the step that takes, from its   *)
(* peer, the ACK of the block it holds, that block being the final one     *)
(* (shorter than BLOCK_SIZE) and the last datagram sent; while that ACK    *)
(* does not come, each timeout sends the final DATA again, and the timeout *)
(* after its fifth sending ends the Sender with a timeout failure.         *)
(***************************************************************************)
C37_DoneOnlyAfterFinalAck ==
  [][ /\ (IsRrq /\ pc # "done" /\ pc' = "done") =>
           /\ HoldsFinalData
           /\ FromPeer(ev')
           /\ ACK_parse(ev'.bytes).tag = "Ok"
           /\ ACK_parse(ev'.bytes).block = rrq_state.block
           /\ Last(sent.pkts) = HeldData
           /\ SendsNothing
           /\ UNCHANGED rrq_state
      /\ (HoldsFinalData /\ ev'.kind = "timeout") =>
           IF sent.repeat < 5
             THEN /\ pc' = "loop"
                  /\ Last(sent.pkts) = HeldData
                  /\ sent' = [sent EXCEPT !.repeat = sent.repeat + 1]
                  /\ rrq_state'.block = rrq_state.block
                  /\ rrq_state'.data = rrq_state.data
           ELSE pc' = "failed" /\ fail' = "timeout" /\ SendsNothing
      /\ (HoldsFinalData /\ pc' # "done") => pc' \in {"loop", "failed", "panicked"}
    ]_vars

\* The final block was sent three times before its ACK came from the peer.
C37_Witness ==
  /\ IsRrq /\ pc = "done"
  /\ FromPeer(ev) /\ ev.bytes = ACK_encode(rrq_state.block)
  /\ rrq_state.block = 2 /\ Len(rrq_state.data) = 1
  /\ sent.repeat = 3

\* The ACK of the final block never came.
C37_WitnessLost ==
  /\ IsRrq /\ pc = "failed" /\ fail = "timeout"
  /\ Len(rrq_state.data) < BLOCK_SIZE
  /\ rrq_state.block = 3 /\ sent.repeat = 5

(***************************************************************************)
(* The trial counter                                                       *)
(***************************************************************************)
\* The trial counter and the block of the handler, and the packet it holds.
Trials == IF IsRrq THEN rrq_state.trial_count ELSE wrq_state.trial_count
Block == IF IsRrq THEN rrq_state.block ELSE Wrq_block(wrq_state)
Held == IF IsRrq THEN HeldData ELSE AckTo(Wrq_block(wrq_state))

\* The step sends a DATA or an ACK that is not the last datagram sent again.
FirstSend ==
  /\ Len(sent'.pkts) > Len(sent.pkts)
  /\ ~IsError(sent'.pkts[Len(sent.pkts) + 1])

(***************************************************************************)
(* C38: once a handler has sent and as long as the last datagram it sent   *)
(* is not an Error packet, its trial counter is between 1 and 5 and is the *)
(* number of times the packet it holds, the last one sent, has been sent.  *)
(* The counter becomes 1 in the steps that send the packet of a new block  *)
(* for the first time and in no other; it grows only by 1, in a timeout    *)
(* that sends the held packet again; a datagram received that leaves the   *)
(* block where it was leaves the counter where it was.                     *)
(***************************************************************************)
C38_TrialCounter ==
  /\ []((sent.pkts # <<>> /\ ~IsError(Last(sent.pkts))) =>
          /\ Trials \in 1..5
          /\ Last(sent.pkts) = Held
          /\ sent.repeat = Trials)
  /\ [][ /\ FirstSend => (Trials' = 1 /\ sent'.pkts[Len(sent.pkts) + 1] = Held' /\ (pc = "loop" => Block' # Block))
         /\ (Trials' = 1 /\ ~FirstSend) => (Trials = 1 /\ Block' = Block)
         /\ (pc = "loop" /\ Trials' > Trials) =>
              /\ Trials' = Trials + 1
              /\ ev'.kind = "timeout"
              /\ sent' = [sent EXCEPT !.repeat = sent.repeat + 1]
              /\ Block' = Block
         /\ (pc = "loop" /\ ev'.kind = "recv" /\ Block' = Block) => Trials' = Trials
       ]_vars

\* A Receiver that has sent the ACK of block 1 four times takes a datagram
\* from another address and is where it was.
C38_Witness ==
  /\ IsWrq /\ pc = "loop" /\ FromElsewhere(ev)
  /\ Wrq_block(wrq_state) = 1
  /\ wrq_state.trial_count = 4 /\ sent.repeat = 4

(***************************************************************************)
(* Silence of the peer                                                     *)
(***************************************************************************)
\* The receive timeouts a handler in its loop can still take.
TimeoutsLeft == MAX_TRIAL_COUNT + 1 - Trials

(***************************************************************************)
(* C39: a handler in its loop can always take a receive timeout, and has   *)
(* between 1 and 5 of them left.  A timeout with more than one left sends  *)
(* the held packet once more, stays in the loop on the same block and      *)
(* leaves one fewer; the timeout with one left sends nothing and ends the  *)
(* session failed by timeout.  So a handler whose peer is silent ends      *)
(* failed by timeout within 5 timeouts, having sent at most 4 packets.     *)
(***************************************************************************)
C39_SilentPeerEndsSession ==
  /\ [](pc = "loop" => /\ TimeoutsLeft \in 1..5
                       /\ ENABLED <<RrqTimeout \/ WrqTimeout>>_vars)
  /\ [][ (pc = "loop" /\ ev'.kind = "timeout") =>
           IF TimeoutsLeft > 1
             THEN /\ pc' = "loop" /\ Block' = Block
                  /\ TimeoutsLeft' = TimeoutsLeft - 1
                  /\ Last(sent.pkts) = Held
                  /\ sent' = [sent EXCEPT !.repeat = sent.repeat + 1]
           ELSE pc' = "failed" /\ fail' = "timeout" /\ SendsNothing
       ]_vars

\* A Receiver that took two blocks and then heard nothing has sent the ACK
\* of block 2 five times (four times again) and failed at the fifth timeout.
C39_Witness ==
  /\ IsWrq /\ pc = "failed" /\ fail = "timeout" /\ ev.kind = "timeout"
  /\ Wrq_block(wrq_state) = 2 /\ Len(sent.pkts) = 3
  /\ Last(sent.pkts) = AckTo(2) /\ sent.repeat = 5
====
